---- MODULE Spec2Model ----
(***************************************************************************)
(* Real-time call distribution core of ThinLineRadio: the reconnection     *)
(* manager (server/reconnection.go) together with the live-feed dispatcher *)
(* and the session lifecycle that drive it.                                *)
(*                                                                         *)
(* Time is a logical clock `now'; one unit is one period of the cleanup    *)
(* ticker.  Calls are identified by their persisted id (their index in     *)
(* `calls').  Livefeed objects live in `heap' and are referred to by       *)
(* location, as the Go code refers to them by pointer.                     *)
(***************************************************************************)
EXTENDS Integers, Sequences, FiniteSets, TLC

\* ------------------------------------------------------------------ bounds
NumSessions == 3
MaxOpen == 2
MaxCalls == 2
MaxTime == 1
MaxBuf == 2
OutboxCap == 1
MaxCommands == 1
HoldDuration == 0
SweepPeriod == 1
MaxHooks == 2
Epoch == 1
MaxAdded == 1
MaxBadRow == 2
SearchMaxLimit == 500
SearchDefaultLimit == 200
\* Timestamps of log rows are in hours since the Unix epoch (the code's are
\* in milliseconds): 10000-01-01 00:00 UTC, 0001-01-01 00:00 UTC, the 24 h of
\* the default look-back, and the wall clock of the searches of the model.
MaxSafeTimestamp == 70389528
YearOneTimestamp == -17259888
Lookback == 24
SearchClock == 500000
MaxOld == 2
MaxRecent == 2
MaxZone == 1
MaxRead == 2
MaxIngest == 2
MaxStored == 3
MaxBatch == 2
MaxRuns == 2
MaxOps == 8
UnregisterCap == 1
MaxLeaves == 2
RemovalCodeLifetime == 0

Sessions == 1..NumSessions

\* ------------------------------------------------------------------- users
NoUser == "nil"
Users == {"u1", "u2"}

\* A scope is the wildcard "*" or an enumerated set of references.
Wildcard == [wild |-> TRUE, refs |-> {}]
Enumerated(refs) == [wild |-> FALSE, refs |-> refs]
Covers(scope, ref) == scope.wild \/ ref \in scope.refs

\* The access store: u1 has a numeric id and wildcard access, u2 has no id
\* (only a PIN) and may only hear talkgroup 100 of system 1.
UserTable ==
  [u \in Users |->
     IF u = "u1"
     THEN [Id |-> 1, Pin |-> "1111", Systems |-> Wildcard, Talkgroups |-> Wildcard]
     ELSE [Id |-> 0, Pin |-> "2222", Systems |-> Enumerated({1}),
           Talkgroups |-> Enumerated({100})]]

getUserKey(u) ==
  IF UserTable[u].Id # 0
  THEN <<"id", UserTable[u].Id>>
  ELSE <<"pin", UserTable[u].Pin>>

\* Controller.Users as the server starts.  A grant request without a
\* talkgroups field carries NoScope.
NewUsers ==
  [u \in Users |-> [PinExpiresAt |-> 0, Systems |-> UserTable[u].Systems,
                    Talkgroups |-> UserTable[u].Talkgroups]]
NoScope == [wild |-> FALSE, refs |-> {-1}]

\* The users that log in.
LoginUsers == {"u2"}

\* ------------------------------------------------------------------- calls
SystemRefs == {1}
TalkgroupRefs == {100, 200}
CallKinds == [systemRef : SystemRefs, talkgroupRef : TalkgroupRefs]

\* ---------------------------------------------------------- filter matrices
\* systemRef -> (talkgroupRef -> enabled), both maps partial.
EmptyMatrix == [sysId \in {} |-> [tgId \in {} |-> FALSE]]
\* The matrix the clients of the model submit: talkgroups 100 and 200 of
\* system 1 enabled, talkgroup 300 listed but disabled.
MatrixWanted == [sysId \in {1} |-> [tgId \in {100, 200, 300} |-> tgId # 300]]
MatrixInputs == {MatrixWanted}

\* Locations of Livefeed objects: the one a session is created with, and the
\* copy made when that session's disconnect is saved.
Locs == {<<kind, s>> : kind \in {"client", "saved"}, s \in Sessions}

\* The HTTP statuses of the webhooks' answers.
StatusOK == 200
StatusUnauthorized == 401
StatusForbidden == 403
StatusBadRequest == 400
StatusInternalServerError == 500

\* The management API key of the server, and the keys requests come with.
ManagementKey == "secret"
RequestKeys == {"", "guess", ManagementKey}
NoResponse == [key |-> "", status |-> 0]

\* The locks: Clients.mutex of the session registry and the reconnection
\* manager's mutex, both free; and the processes that take them, at rest.
NoLocks == [Clients |-> "", rm |-> ""]
NoRevoke == [pc |-> "idle", user |-> NoUser, todo |-> {}, client |-> 0]
NoRestore == [pc |-> "idle", client |-> 0, user |-> NoUser]
NoReceive == [pc |-> "select", client |-> 0]

\* The removal codes requests come with, and strings.ToUpper(strings.TrimSpace(code)).
RemovalCodes == {"", " ", "ab12", " AB12 ", "ZZ99"}
Normalised(code) ==
  CASE code \in {"", " "} -> ""
    [] code \in {"ab12", " AB12 "} -> "AB12"
    [] OTHER -> code

\* The service running with no removal code; `issue' counts the codes set.
\* A leave request that has not arrived.
LeaveRequests == 1..MaxLeaves
NoRemovalCode == [running |-> TRUE, removalCode |-> "", removalCodeExpiry |-> 0, issue |-> 0]
NoLeave == [pc |-> "idle", entered |-> "", validCode |-> "", expiry |-> 0, issue |-> 0,
            status |-> 0]

VARIABLES
  now,              \* the clock
  ticker,           \* time since the cleanup ticker last fired, -1 if not running
  rmEnabled,        \* ReconnectionManager.Enabled
  rmMaxBufferSize,  \* ReconnectionManager.MaxBufferSize
  userAuthRequired, \* Controller.requiresUserAuth()
  States,           \* ReconnectionManager.States: user key -> DisconnectedClientState
  heap,             \* location -> Livefeed.Matrix
  phase,            \* session -> "idle" | "live" | "closing" | "closed"
  clients,          \* session -> [User, Livefeed, Send]
  cmds,             \* session -> number of livefeed commands it has sent
  replay,           \* session -> the replay goroutine of RestoreClientState
  calls,            \* the persisted calls, in id order
  fault,            \* TRUE once a handler has panicked
  enq,              \* history: session -> every call message enqueued to its outbox, in order
  saved,            \* history: user key -> facts about the record stored under that key
  restored,         \* history: session -> what RestoreClientState found for it
  swept,            \* history: TRUE once the cleanup goroutine has deleted a record
  centralEnabled,   \* Options.CentralManagementEnabled
  apiKey,           \* Options.CentralManagementAPIKey
  lastResponse,     \* the X-API-Key of the last webhook request, and the status it was answered with
  mutex,            \* lock -> the process holding it, "" when free
  revoke,           \* the revoke webhook's handler: its position and what it iterates over
  restore,          \* a connecting session's RestoreClientState call: its position
  Unregister,       \* Controller.Unregister: the sessions on the channel
  controller,       \* the controller's loop: its position, and the session it received
  cms,              \* Controller.CentralManagement: the service and its removal code
  leave,            \* leave request -> its position in LeaveCentralManagementHandler
  userStore,        \* Controller.Users: user -> [PinExpiresAt]
  hooks,            \* number of management webhook requests served
  revoked,          \* history: session -> "no" | "told" | "untold", set by a revocation
  revokedAt,        \* history: user -> time of the revocation in force, -1 if none
  logRows,          \* the rows of the "logs" table
  logZone,          \* the offset of time.Local from UTC, in hours
  logResults,       \* what the last search returned
  logFailure,       \* what the database did to the last search's query
  ffmpeg,           \* the FFMpeg object: available, version43, warned
  callStore,        \* the "calls" table: audio, MIME type and filename by callId
  lastIngest,       \* the call last handed to ingest, and whether its conversion failed
  migration,        \* the run of MigrateToOpus: its position, its locals, and what it started from
  tagTable,         \* the "tags" table: label and order by tagId
  tagList,          \* tags.List
  tagWrite,         \* the last Tags.Write: the table it started from, and whether it returned an error
  dt                \* the DeviceTokens registry: tokens, userTokens, and the DeviceToken objects they point to

vars == <<now, ticker, rmEnabled, rmMaxBufferSize, userAuthRequired, States, heap,
          phase, clients, cmds, replay, calls, fault, enq, saved, restored, swept,
          centralEnabled, apiKey, lastResponse, mutex, revoke, restore, Unregister, controller,
          cms, leave,
          userStore, hooks, revoked, revokedAt, logRows, logZone, logResults,
          logFailure, ffmpeg, callStore, lastIngest, migration,
          tagTable, tagList, tagWrite, dt>>

config == <<rmEnabled, rmMaxBufferSize, userAuthRequired, centralEnabled, apiKey>>
hookState == <<userStore, hooks, revokedAt, lastResponse>>
logState == <<logRows, logZone, logResults, logFailure>>
audioState == <<ffmpeg, callStore, lastIngest, migration>>
tagState == <<tagTable, tagList, tagWrite>>
lockState == <<mutex, revoke, restore, Unregister, controller>>
leaveState == <<cms, leave>>

\* ------------------------------------------------------------------ helpers
Range(seq) == {seq[i] : i \in 1..Len(seq)}

\* for sysId, talkgroups := range m { copy[sysId] = make(...); for tgId, enabled ... }
CopyMatrix(m) ==
  [sysId \in DOMAIN m |-> [tgId \in DOMAIN m[sysId] |-> m[sysId][tgId]]]

\* Livefeed.IsEnabled: the entry exists and is true.
IsEnabled(m, call) ==
  /\ call.systemRef \in DOMAIN m
  /\ call.talkgroupRef \in DOMAIN m[call.systemRef]
  /\ m[call.systemRef][call.talkgroupRef]

\* authorize(u, call): systems is "*" or contains the system, talkgroups likewise.
userHasAccess(u, call) ==
  /\ u \in DOMAIN userStore
  /\ Covers(userStore[u].Systems, call.systemRef)
  /\ Covers(userStore[u].Talkgroups, call.talkgroupRef)

CallMessage(id) == [Command |-> "call", Payload |-> id]

\* select { case client.Send <- msg: ... default: ... }
SendAccepts(client) == Len(client.Send) < OutboxCap

\* Livefeed objects nothing refers to any more are garbage.
Collect(h, S, c, ph) ==
  [l \in Locs |->
     IF \/ \E k \in DOMAIN S : S[k].Livefeed = l
        \/ \E s \in Sessions : ph[s] # "closed" /\ c[s].Livefeed = l
     THEN h[l]
     ELSE EmptyMatrix]

NoReplay == [pc |-> "none", missedCalls |-> <<>>]
BlankClient(s) == [User |-> NoUser, Livefeed |-> <<"client", s>>, Send |-> <<>>]
NotRestored ==
  [found |-> FALSE, age |-> -1, buffer |-> <<>>, handed |-> <<>>, want |-> {}, refusedAt |-> -1]

\* ------------------------------------------------------------ log.go: search
\* An option of LogsSearchOptions is nil or holds a uint.
NoOption == [set |-> FALSE, v |-> 0]
Option(v) == [set |-> TRUE, v |-> v]

\* A column of a row as the scan reads it (sql.NullInt64).
NullStamp == [Valid |-> FALSE, Int64 |-> 0]
Stamp(v) == [Valid |-> TRUE, Int64 |-> v]

\* The rows of the table.  A row is named by an integer that grows with its
\* timestamp: the rows 1..count have timestamps within the look-back window,
\* the rows (1-old)..0 have older ones, and the rows of `odd' have the
\* timestamps of OddTimestamp.  The rows of `bad' have an empty message;
\* `added' counts the rows logged since the start.
YearZeroRow == -9002
EpochRow == -9001
LastHourRow == 9001
YearTenThousandRow == 9002
NullRow == 9003
OddRows == {YearZeroRow, EpochRow, LastHourRow, YearTenThousandRow, NullRow}
OddTimestamp(id) ==
  CASE id = YearZeroRow -> Stamp(YearOneTimestamp - 1)
    [] id = EpochRow -> Stamp(0)
    [] id = LastHourRow -> Stamp(MaxSafeTimestamp - 1)
    [] id = YearTenThousandRow -> Stamp(MaxSafeTimestamp)
    [] OTHER -> NullStamp

NoRows == [count |-> 0, bad |-> {}, added |-> 0, old |-> 0, odd |-> {}]

Min(a, b) == IF a < b THEN a ELSE b
Max(a, b) == IF a > b THEN a ELSE b

\* The "timestamp" column of a row.
TimestampOf(id) ==
  IF id \in OddRows THEN OddTimestamp(id)
  ELSE IF id <= 0 THEN Stamp(SearchClock - Lookback - 1 + id)
  ELSE Stamp(SearchClock - Lookback + Min(id - 1, Lookback))

\* What a search returns: its error (nil or not), and its results.
NoResults == [Searched |-> FALSE, Err |-> FALSE,
              Limit |-> NoOption, Offset |-> NoOption,
              Sort |-> NoOption, Date |-> NoOption,
              Logs |-> <<>>, HasMore |-> FALSE, Count |-> 0]

\* What the database does to a search's query: it serves it; QueryContext
\* returns an error (the 30 s of the context are over, or the database
\* fails); rows.Next() returns false after `after' rows because of such an
\* error; or rows.Scan() of row number `after' returns an error.
NoFailure == [at |-> "none", after |-> 0]
QueryFailure == [at |-> "query", after |-> 0]
ReadFailure(k) == [at |-> "rows", after |-> k]
ScanFailure(k) == [at |-> "scan", after |-> k]
Failures == {NoFailure, QueryFailure}
              \cup {ReadFailure(k) : k \in 0..MaxRead}
              \cup {ScanFailure(k) : k \in 1..(MaxRead + 1)}

\* The options the searches of the model are made with.
LimitOptions == {NoOption} \cup {Option(v) : v \in {0, 1, 2, SearchDefaultLimit,
                                                    SearchMaxLimit, SearchMaxLimit + 1}}
OffsetOptions == {NoOption} \cup {Option(v) : v \in {1, SearchDefaultLimit,
                                                     2 * SearchDefaultLimit}}
SortOptions == {NoOption} \cup {Option(v) : v \in {-1, 0, 1}}
DateOptions == {NoOption} \cup {Option(v) : v \in {SearchClock - Lookback - 1,
                                                   SearchClock - Lookback + 1}}

\* A limit that is taken as given.
SearchLimit_NoClamp(opt) == IF opt.set THEN opt.v ELSE SearchDefaultLimit

\* case uint: limit = uint(math.Min(float64(500), float64(v))); default: limit = 200
SearchLimit(opt) == IF opt.set THEN Min(SearchMaxLimit, opt.v) ELSE SearchDefaultLimit

\* case uint: offset = v
SearchOffset(opt) == IF opt.set THEN opt.v ELSE 0

\* case int: DESC when v < 0, else ASC; default: ASC
SearchOrder(opt) == IF opt.set /\ opt.v < 0 THEN "DESC" ELSE "ASC"

\* A sorted sequence of a set of rows.
RECURSIVE SortedRows(_)
SortedRows(ids) ==
  IF ids = {} THEN <<>>
  ELSE LET least == CHOOSE i \in ids : \A j \in ids : i <= j
       IN <<least>> \o SortedRows(ids \ {least})

Reverse(q) == [i \in 1..Len(q) |-> q[Len(q) + 1 - i]]

\* A clause that lets every timestamp through.
TimestampClamp_None(ts) == TRUE

\* "timestamp" > 0 AND "timestamp" < maxSafeTimestampMs (a NULL compares false).
TimestampClamp(ts) == ts.Valid /\ ts.Int64 > 0 /\ ts.Int64 < MaxSafeTimestamp

\* A date filter that applies the look-back to every search without a date.
DateFilter_Always(ts, order, dateOption) ==
  ts.Valid /\ (IF dateOption.set THEN ts.Int64 >= dateOption.v
               ELSE ts.Int64 >= SearchClock - Lookback)

\* "timestamp" >= date when a date is given; else, for DESC only,
\* "timestamp" >= now - 24 h.
DateFilter(ts, order, dateOption) ==
  IF dateOption.set THEN ts.Valid /\ ts.Int64 >= dateOption.v
  ELSE order = "DESC" => (ts.Valid /\ ts.Int64 >= SearchClock - Lookback)

\* The WHERE clause.
Where(id, order, dateOption) ==
  LET ts == TimestampOf(id)
  IN TimestampClamp(ts) /\ DateFilter(ts, order, dateOption)

\* The rows (1-old)..count that satisfy the WHERE clause, in ascending
\* order.  Their timestamps grow with the row, so they are the rows from the
\* first one that satisfies it.
MatchingRows(rows, order, dateOption) ==
  LET lo == 1 - rows.old
      hi == rows.count
      first == IF \E i \in lo..hi : Where(i, order, dateOption)
               THEN CHOOSE i \in lo..hi :
                      /\ Where(i, order, dateOption)
                      /\ \A j \in lo..(i - 1) : ~Where(j, order, dateOption)
               ELSE hi + 1
  IN [i \in 1..(hi - first + 1) |-> first + i - 1]

\* SELECT ... WHERE ... ORDER BY "timestamp" order LIMIT queryLimit OFFSET
\* offset: the rows the query returns (NULLs sort as the largest value).
QueryRows(rows, order, dateOption, queryLimit, offset) ==
  LET asc == SelectSeq(SortedRows({i \in rows.odd : i < 0}),
                       LAMBDA id : Where(id, order, dateOption))
               \o MatchingRows(rows, order, dateOption)
               \o SelectSeq(SortedRows({i \in rows.odd : i > 0}),
                            LAMBDA id : Where(id, order, dateOption))
      matching == IF order = "DESC" THEN Reverse(asc) ELSE asc
  IN SubSeq(matching, offset + 1, Min(Len(matching), offset + queryLimit))

\* A row loop that keeps every timestamp.
ValidYear_Any(ts, zone) == TRUE

\* t := time.UnixMilli(ts); y := t.Year(); y >= 1 && y <= 9999, t in time.Local.
ValidYear(ts, zone) ==
  ts + zone >= YearOneTimestamp /\ ts + zone < MaxSafeTimestamp

\* The row loop's tests on a scanned row: the rows that fail one are skipped.
ValidRow(rows, zone, id) ==
  /\ id \notin rows.bad
  /\ LET ts == TimestampOf(id)
     IN ts.Valid /\ ts.Int64 > 0 /\ ValidYear(ts.Int64, zone)

\* The row loop: the rows that are not skipped, kept while len(Logs) < limit.
KeepRows(rows, zone, fetched, limit) ==
  LET ok == SelectSeq(fetched, LAMBDA r : ValidRow(rows, zone, r))
  IN SubSeq(ok, 1, Min(Len(ok), limit))

\* A HasMore that is already true when the page is full.
HasMore_AtLeast(totalRows, limit) == totalRows >= limit

\* logResults.HasMore = totalRows > int(limit)
HasMore(totalRows, limit) == totalRows > limit

\* A count that never announces a further page.
Count_Exact(offset, kept, more) == offset + Len(kept)

\* logResults.Count: offset + len(Logs), and one more when HasMore.
Count(offset, kept, more) ==
  IF more THEN offset + Len(kept) + 1 ELSE offset + Len(kept)

\* The rows rows.Next() delivers before it returns false.
ReadRows(fetched, failure) ==
  IF failure.at = "rows" THEN SubSeq(fetched, 1, Min(failure.after, Len(fetched)))
  ELSE fetched

\* The rows rows.Scan() reads without an error.
ScannedRows(fetched, failure) ==
  IF failure.at = "scan"
  THEN SubSeq(fetched, 1, failure.after - 1)
         \o SubSeq(fetched, failure.after + 1, Len(fetched))
  ELSE fetched

\* err after the loop: the error of the last rows.Scan(); rows.Err() is not
\* consulted.
LoopError(read, failure) == failure.at = "scan" /\ failure.after = Len(read)

\* return nil, formatError(err, query)
SearchError(limitOption, offsetOption, sortOption, dateOption) ==
  [Searched |-> TRUE, Err |-> TRUE,
   Limit |-> limitOption, Offset |-> offsetOption,
   Sort |-> sortOption, Date |-> dateOption,
   Logs |-> <<>>, HasMore |-> FALSE, Count |-> 0]

\* Logs.Search(searchOptions, db): what it returns.
Search(rows, zone, limitOption, offsetOption, sortOption, dateOption, failure) ==
  LET limit == SearchLimit(limitOption)
      offset == SearchOffset(offsetOption)
      order == SearchOrder(sortOption)
      queryLimit == limit + 1
      fetched == QueryRows(rows, order, dateOption, queryLimit, offset)
      read == ReadRows(fetched, failure)
      totalRows == Len(read)
      kept == KeepRows(rows, zone, ScannedRows(read, failure), limit)
      more == HasMore(totalRows, limit)
  IN IF failure.at = "query" \/ LoopError(read, failure)
     THEN SearchError(limitOption, offsetOption, sortOption, dateOption)
     ELSE [Searched |-> TRUE, Err |-> FALSE,
           Limit |-> limitOption, Offset |-> offsetOption,
           Sort |-> sortOption, Date |-> dateOption,
           Logs |-> kept, HasMore |-> more,
           Count |-> Count(offset, kept, more)]

\* Whether the database can do `failure' to the query: a failure after k rows
\* needs more than k rows to deliver, a failure of the scan of row k needs k.
CanFail(rows, limitOption, offsetOption, sortOption, dateOption, failure) ==
  LET fetched == QueryRows(rows, SearchOrder(sortOption), dateOption,
                           SearchLimit(limitOption) + 1, SearchOffset(offsetOption))
  IN /\ failure.at = "rows" => failure.after < Len(fetched)
     /\ failure.at = "scan" => failure.after <= Len(fetched)

\* The row counts the stores of the model start with: around every page end.
RowCounts ==
  {0, 2 * SearchDefaultLimit + 50}
    \cup {SearchOffset(o) + SearchLimit(l) + d :
             o \in OffsetOptions, l \in LimitOptions, d \in 0..1}

\* ------------------------------------------- ffmpeg.go: audio conversion
\* &FFMpeg{}: whether `ffmpeg -version' ran, and whether it reported 4.3 or later.
NewFFMpeg(available, version43) ==
  [available |-> available, version43 |-> available /\ version43, warned |-> FALSE]

\* An audio blob: the recording it holds and its encoding.
Blob(of, as) == [of |-> of, as |-> as]

\* A file name: what path.Ext splits off, and the rest.
Filename(stem, ext) == [stem |-> stem, ext |-> ext]

\* strings.TrimSuffix(name, path.Ext(name)) + ext
ReplaceExt(name, ext) == [name EXCEPT !.ext = ext]

Call(audio, mime, name) == [Audio |-> audio, AudioMime |-> mime, AudioFilename |-> name]

NoIngest == [done |-> FALSE, call |-> Call(Blob(0, "none"), "", Filename("", "")),
             failed |-> FALSE]

ConversionModes == {"disabled", "enabled", "normalize"}
Codecs == {"opus", "aac"}

\* cmd.Run() succeeded: the call takes the tool's output, its extension and
\* MIME type.
Converted(call, codec) ==
  IF codec = "opus"
  THEN Call(Blob(call.Audio.of, "opus"), "audio/opus", ReplaceExt(call.AudioFilename, ".opus"))
  ELSE Call(Blob(call.Audio.of, "aac"), "audio/mp4", ReplaceExt(call.AudioFilename, ".m4a"))

\* A conversion that takes what the tool wrote also when the tool failed.
Convert_KeepOutput(ff, call, mode, codec, run) ==
  IF mode = "disabled" THEN [ffmpeg |-> ff, call |-> call, err |-> FALSE]
  ELSE IF ~ff.available
  THEN [ffmpeg |-> [ff EXCEPT !.warned = TRUE], call |-> call, err |-> ~ff.warned]
  ELSE [ffmpeg |-> IF mode = "normalize" /\ ~ff.version43
                   THEN [ff EXCEPT !.warned = TRUE] ELSE ff,
        call |-> IF run THEN Converted(call, codec)
                 ELSE [call EXCEPT !.Audio = Blob(call.Audio.of, "truncated")],
        err |-> FALSE]

\* FFMpeg.Convert(call, ..., mode, ..., options): the FFMpeg object and the
\* call after it, and whether it returns an error.  `run' is whether cmd.Run()
\* succeeds.
Convert(ff, call, mode, codec, run) ==
  IF mode = "disabled" THEN [ffmpeg |-> ff, call |-> call, err |-> FALSE]
  ELSE IF ~ff.available
  THEN [ffmpeg |-> [ff EXCEPT !.warned = TRUE], call |-> call, err |-> ~ff.warned]
  ELSE [ffmpeg |-> IF mode = "normalize" /\ ~ff.version43
                   THEN [ff EXCEPT !.warned = TRUE] ELSE ff,
        call |-> IF run THEN Converted(call, codec) ELSE call,
        err |-> FALSE]

\* The calls handed to ingest.
IngestMimes == {"audio/wav", "audio/mpeg"}
IngestExts == {"", ".wav"}

\* ------------------------------------------------ migration to Opus
\* WHERE "audioMime" IN (...): the calls the migration counts and selects.
MigrationMimes == {"audio/mp4", "audio/m4a", "audio/aac", "audio/x-m4a",
                   "audio/mpeg", "audio/mp3"}

\* A selection that takes every call.
Eligible_All(call) == TRUE

Eligible(call) == call.AudioMime \in MigrationMimes

EligibleIds(store) == {id \in 1..Len(store) : Eligible(store[id])}

\* SELECT ... WHERE ... ORDER BY "callId" LIMIT batchSize
FirstBatch(store, batchSize) ==
  LET ids == SortedRows(EligibleIds(store))
  IN SubSeq(ids, 1, Min(Len(ids), batchSize))

\* convertToOpus(audio): ffmpeg fails on audio it cannot read.
ConvertToOpus(audio) ==
  IF audio.as = "corrupt" THEN [ok |-> FALSE, audio |-> audio]
  ELSE [ok |-> TRUE, audio |-> Blob(audio.of, "opus")]

\* UPDATE "calls" SET "audio", "audioFilename", "audioMime" WHERE "callId" = id
UpdateCall(store, id, opusAudio) ==
  [store EXCEPT ![id] = Call(opusAudio, "audio/opus", ReplaceExt(@.AudioFilename, ".opus"))]

\* No run of the migration yet.  pc is where the run is: "idle" when none is
\* running, "loop" at the head of the batch loop, "rows" inside a batch;
\* `result' is how the last run ended; `before' is the table the run started
\* from and `failedIds' the calls it counted as failed.
NoMigration ==
  [pc |-> "idle", result |-> "none", runs |-> 0, batchSize |-> 0,
   totalCalls |-> 0, migrated |-> 0, failed |-> 0, skipped |-> 0,
   batch |-> <<>>, pos |-> 0, batchCount |-> 0,
   before |-> <<>>, failedIds |-> {}, queryOk |-> TRUE]

\* The calls the tables of the model start with.
StoredCall(id, kind) ==
  CASE kind = "mp4" -> Call(Blob(id, "aac"), "audio/mp4", Filename("converted", ".m4a"))
    [] kind = "corrupt" -> Call(Blob(id, "corrupt"), "audio/mpeg", Filename("upload", ".mp3"))
    [] kind = "opus" -> Call(Blob(id, "opus"), "audio/opus", Filename("encoded", ".opus"))
    [] OTHER -> Call(Blob(id, "original"), "audio/wav", Filename("upload", ".wav"))
StoredKinds == {"mp4", "corrupt", "opus", "wav"}
Stores ==
  UNION {{[id \in 1..n |-> StoredCall(id, k[id])] : k \in [1..n -> StoredKinds]} :
         n \in 0..MaxStored}

\* ------------------------------------------------------- tag.go: Tags.Write
Tag(id, label, order) == [Id |-> id, Label |-> label, Order |-> order]
TagRow(tag) == [Label |-> tag.Label, Order |-> tag.Order]
NoTags == [id \in {} |-> TagRow(Tag(0, "", 0))]
NoWrite == [done |-> FALSE, err |-> FALSE, before |-> NoTags]

\* Device tokens.  A *DeviceToken is the index of its object in dt.objects;
\* Sound stands for the fields that carry no identity (Token, FCMToken,
\* Platform, Sound, LastUsed).
MaxTokens == 2
MaxObjects == 3
DeviceUsers == {1, 2}
PushTypes == {"onesignal", "fcm"}
Sounds == {"default", "chime"}
DeviceToken(id, userId, pushType, sound) ==
  [Id |-> id, UserId |-> userId, PushType |-> pushType, Sound |-> sound]
DeviceTokenInputs ==
  {DeviceToken(id, u, t, x) : id \in 1..MaxTokens, u \in DeviceUsers, t \in PushTypes, x \in Sounds}

\* NewDeviceTokens(): two empty maps; serial is the last "deviceTokenId" the
\* database assigned.
NewDeviceTokens ==
  [tokens |-> [id \in {} |-> 0], userTokens |-> [u \in DeviceUsers |-> <<>>],
   objects |-> <<>>, serial |-> 0]

\* append(s[:i], s[i+1:]...)
RemoveAt(s, i) == SubSeq(s, 1, i - 1) \o SubSeq(s, i + 1, Len(s))

\* The rows Write deletes: those of no tag of the list, unless the list holds
\* a tag without an id.
RemovedTags(table, list) ==
  IF \E i \in 1..Len(list) : list[i].Id = 0 THEN {}
  ELSE {id \in DOMAIN table : \A i \in 1..Len(list) : list[i].Id # id}

\* The id the database assigns to an inserted row.
NextTagId(table) ==
  IF DOMAIN table = {} THEN 1
  ELSE 1 + CHOOSE m \in DOMAIN table : \A id \in DOMAIN table : id <= m

\* SELECT "tagId" FROM "tags" WHERE "label" = ... LIMIT 1, or 0 for no row.
TagIdByLabel(table, label) ==
  IF \E id \in DOMAIN table : table[id].Label = label
  THEN CHOOSE id \in DOMAIN table :
         /\ table[id].Label = label
         /\ \A other \in DOMAIN table : table[other].Label = label => id <= other
  ELSE 0

\* The body of the loop over tags.List for its i-th tag, inside the
\* transaction: a look-up, then an INSERT or an UPDATE.  st.ops counts the
\* database operations done; operation number st.failAt fails.
WriteTag(st, i) ==
  LET tag == st.list[i]
      existingId == IF tag.Id > 0 THEN 0 ELSE TagIdByLabel(st.work, tag.Label)
      id == IF tag.Id > 0 THEN tag.Id ELSE existingId
      count == IF id > 0 /\ id \in DOMAIN st.work THEN 1 ELSE 0
      list == IF existingId > 0 THEN [st.list EXCEPT ![i].Id = existingId] ELSE st.list
  IN IF st.err THEN st
     ELSE IF st.failAt = st.ops + 1
     THEN [st EXCEPT !.err = TRUE, !.ops = @ + 1]
     ELSE IF st.failAt = st.ops + 2
     THEN [st EXCEPT !.err = TRUE, !.ops = @ + 2, !.list = list]
     ELSE IF count = 0
     THEN [st EXCEPT !.ops = @ + 2, !.list = list,
                     !.work = (IF id > 0 THEN id ELSE NextTagId(st.work)) :> TagRow(tag)
                                @@ st.work]
     ELSE [st EXCEPT !.ops = @ + 2, !.list = list,
                     !.work = [st.work EXCEPT ![id] = TagRow(tag)]]

RECURSIVE WriteTags(_, _)
WriteTags(st, i) ==
  IF i > Len(st.list) THEN st ELSE WriteTags(WriteTag(st, i), i + 1)

\* The transaction of Write up to its Commit: tx.Begin, the SELECT of the
\* ids, the DELETE of the removed ones, the loop, tx.Commit.
WriteSteps(table, list, failAt) ==
  LET removed == RemovedTags(table, list)
      begun == [work |-> table, list |-> list, ops |-> 2, failAt |-> failAt,
                err |-> failAt \in {1, 2}]
      deleted == IF begun.err \/ removed = {} THEN begun
                 ELSE IF failAt = 3 THEN [begun EXCEPT !.err = TRUE, !.ops = 3]
                 ELSE [begun EXCEPT !.ops = 3,
                                    !.work = [id \in DOMAIN table \ removed |-> table[id]]]
      written == WriteTags(deleted, 1)
  IN IF ~written.err /\ failAt = written.ops + 1
     THEN [written EXCEPT !.err = TRUE] ELSE written

\* A rollback that leaves the work of the transaction in the table.
Rollback_None(table, work) == work

\* tx.Rollback(): the table is as it was before the transaction.
Rollback(table, work) == table

\* Tags.Write(db): the table and tags.List after it, and whether it returns
\* an error.
Write(table, list, failAt) ==
  LET r == WriteSteps(table, list, failAt)
  IN [table |-> IF r.err THEN Rollback(table, r.work) ELSE r.work,
      list |-> r.list, err |-> r.err]

\* The "tags" tables and the lists the model starts with.
TagTables ==
  {NoTags, 1 :> TagRow(Tag(1, "fire", 1)),
   1 :> TagRow(Tag(1, "fire", 1)) @@ 2 :> TagRow(Tag(2, "ems", 2))}
TagLists ==
  {<<>>, <<Tag(0, "ems", 1)>>, <<Tag(1, "police", 1)>>,
   <<Tag(1, "police", 2), Tag(3, "ems", 1)>>,
   <<Tag(2, "ems", 1), Tag(0, "air", 2)>>}

\* ------------------------------------------------------------------- Init
Init ==
  /\ now = 0
  /\ rmEnabled \in BOOLEAN
  /\ rmMaxBufferSize \in 0..MaxBuf
  /\ userAuthRequired \in BOOLEAN
  /\ ticker = IF rmEnabled THEN 0 ELSE -1
  /\ States = [k \in {} |-> 0]
  /\ heap = [l \in Locs |-> EmptyMatrix]
  /\ phase = [s \in Sessions |-> "idle"]
  /\ clients = [s \in Sessions |-> BlankClient(s)]
  /\ cmds = [s \in Sessions |-> 0]
  /\ replay = [s \in Sessions |-> NoReplay]
  /\ calls = <<>>
  /\ fault = FALSE
  /\ enq = [s \in Sessions |-> <<>>]
  /\ saved = [k \in {} |-> 0]
  /\ restored = [s \in Sessions |-> NotRestored]
  /\ swept = FALSE
  /\ centralEnabled = FALSE
  /\ userStore = NewUsers
  /\ hooks = 0
  /\ apiKey = ManagementKey
  /\ lastResponse = NoResponse
  /\ mutex = NoLocks
  /\ revoke = NoRevoke
  /\ restore = NoRestore
  /\ Unregister = <<>>
  /\ controller = NoReceive
  /\ cms = NoRemovalCode
  /\ leave = [r \in LeaveRequests |-> NoLeave]
  /\ revoked = [s \in Sessions |-> "no"]
  /\ revokedAt = [u \in Users |-> -1]
  /\ logRows = NoRows
  /\ logZone = 0
  /\ logResults = NoResults
  /\ logFailure = NoFailure
  /\ ffmpeg = NewFFMpeg(TRUE, TRUE)
  /\ callStore = <<>>
  /\ lastIngest = NoIngest
  /\ migration = NoMigration
  /\ tagTable = NoTags
  /\ tagList = <<>>
  /\ tagWrite = NoWrite
  /\ dt = NewDeviceTokens

\* ------------------------------------------------- reconnection.go: the manager
\* if now.Sub(state.LastSeen) > rm.HoldDuration
GraceExpired(state, t) == t - state.LastSeen > HoldDuration

\* SaveDisconnectedState keeping the session's own Livefeed (no copy).
SaveDisconnectedState_Shallow(s) ==
  LET client == clients[s] IN
  IF ~rmEnabled \/ client.User = NoUser
  THEN <<States, heap>>
  ELSE <<(getUserKey(client.User) :> [User |-> client.User,
                                     LastSeen |-> now,
                                     MissedCalls |-> <<>>,
                                     Livefeed |-> client.Livefeed,
                                     MaxBufferSize |-> rmMaxBufferSize]) @@ States,
         heap>>

\* SaveDisconnectedState(client): the new value of <<States, heap>>.
SaveDisconnectedState(s) ==
  LET client == clients[s] IN
  IF ~rmEnabled \/ client.User = NoUser
  THEN <<States, heap>>
  ELSE LET userKey == getUserKey(client.User)
           livefeedCopy == <<"saved", s>>
       IN <<(userKey :> [User |-> client.User,
                         LastSeen |-> now,
                         MissedCalls |-> <<>>,
                         Livefeed |-> livefeedCopy,
                         MaxBufferSize |-> rmMaxBufferSize]) @@ States,
            [heap EXCEPT ![livefeedCopy] = CopyMatrix(heap[client.Livefeed])]>>

\* The loop without its grace test.
BufferAccepts_NoGraceCheck(state, call) ==
  /\ IsEnabled(heap[state.Livefeed], call)
  /\ (userAuthRequired => userHasAccess(state.User, call))

\* The loop without its access test.
BufferAccepts_NoAccessCheck(state, call) ==
  /\ ~GraceExpired(state, now)
  /\ IsEnabled(heap[state.Livefeed], call)

\* The three `continue' tests of BufferCallForDisconnected's loop.
BufferAccepts(state, call) ==
  /\ ~GraceExpired(state, now)
  /\ IsEnabled(heap[state.Livefeed], call)
  /\ (userAuthRequired => userHasAccess(state.User, call))

\* state.MissedCalls[1:] on an empty slice is a run-time panic.
BufferPanics(state) ==
  /\ ~(Len(state.MissedCalls) < state.MaxBufferSize)
  /\ Len(state.MissedCalls) < 1

\* A full buffer that keeps what it has and drops the new call.
AppendMissed_DropNewest(state, id) ==
  IF Len(state.MissedCalls) < state.MaxBufferSize
  THEN Append(state.MissedCalls, id)
  ELSE state.MissedCalls

\* if len < MaxBufferSize { append } else { append(MissedCalls[1:], call) }
AppendMissed(state, id) ==
  IF Len(state.MissedCalls) < state.MaxBufferSize
  THEN Append(state.MissedCalls, id)
  ELSE Append(Tail(state.MissedCalls), id)

\* BufferCallForDisconnected(call): the new value of States.
BufferCallForDisconnected(id, call) ==
  IF ~rmEnabled
  THEN States
  ELSE [k \in DOMAIN States |->
          IF BufferAccepts(States[k], call)
          THEN [States[k] EXCEPT !.MissedCalls = AppendMissed(States[k], id)]
          ELSE States[k]]

\* RestoreClientState without its grace test.
RestoreOutcome_NoGraceCheck(u) ==
  IF ~rmEnabled \/ u = NoUser THEN "off"
  ELSE IF getUserKey(u) \notin DOMAIN States THEN "none"
  ELSE "restored"

\* RestoreClientState(client) up to the start of the goroutine:
\* which of its returns is taken for a session of user u.
RestoreOutcome(u) ==
  IF ~rmEnabled \/ u = NoUser THEN "off"
  ELSE IF getUserKey(u) \notin DOMAIN States THEN "none"
  ELSE IF GraceExpired(States[getUserKey(u)], now) THEN "expired"
  ELSE "restored"

\* A delete that leaves the record in place.
DeleteState_Keep(S, userKey) == S

\* delete(rm.States, userKey)
DeleteState(S, userKey) == [k \in DOMAIN S \ {userKey} |-> S[k]]

\* RestoreClientState whose goroutine starts at the second buffered call.
RestoreClientState_SkipFirst(s, u) ==
  LET outcome == RestoreOutcome(u)
      userKey == getUserKey(u)
  IN CASE outcome \in {"off", "none"} ->
            <<States, clients[s].Livefeed, NoReplay>>
       [] outcome = "expired" ->
            <<DeleteState(States, userKey), clients[s].Livefeed, NoReplay>>
       [] outcome = "restored" ->
            LET state == States[userKey]
                missedCalls == state.MissedCalls
            IN <<DeleteState(States, userKey),
                 state.Livefeed,
                 IF Len(missedCalls) <= 1
                 THEN NoReplay
                 ELSE [pc |-> "run", missedCalls |-> Tail(missedCalls)]>>

\* RestoreClientState(client): the new value of <<States, client.Livefeed, goroutine>>.
RestoreClientState(s, u) ==
  LET outcome == RestoreOutcome(u)
      userKey == getUserKey(u)
  IN CASE outcome \in {"off", "none"} ->
            <<States, clients[s].Livefeed, NoReplay>>
       [] outcome = "expired" ->
            <<DeleteState(States, userKey), clients[s].Livefeed, NoReplay>>
       [] outcome = "restored" ->
            LET state == States[userKey]
                missedCalls == state.MissedCalls
            IN <<DeleteState(States, userKey),
                 state.Livefeed,
                 IF Len(missedCalls) = 0
                 THEN NoReplay
                 ELSE [pc |-> "run", missedCalls |-> missedCalls]>>

\* A goroutine that does not advance past the call it has just sent.
ReplayStep_Repeat(s) ==
  LET client == clients[s]
      call == Head(replay[s].missedCalls)
  IN IF SendAccepts(client)
     THEN <<Append(client.Send, CallMessage(call)),
            [pc |-> "run", missedCalls |-> replay[s].missedCalls]>>
     ELSE <<client.Send, [pc |-> "full", missedCalls |-> replay[s].missedCalls]>>

\* A goroutine that tries the refused call again instead of returning.
ReplayStep_Retry(s) ==
  LET client == clients[s]
      call == Head(replay[s].missedCalls)
      rest == Tail(replay[s].missedCalls)
  IN IF SendAccepts(client)
     THEN <<Append(client.Send, CallMessage(call)),
            [pc |-> IF rest = <<>> THEN "done" ELSE "run", missedCalls |-> rest]>>
     ELSE <<client.Send, [pc |-> "run", missedCalls |-> replay[s].missedCalls]>>

\* One iteration of the goroutine's loop over missedCalls:
\* the new value of <<client.Send, goroutine>>.
ReplayStep(s) ==
  LET client == clients[s]
      call == Head(replay[s].missedCalls)
      rest == Tail(replay[s].missedCalls)
  IN IF SendAccepts(client)
     THEN <<Append(client.Send, CallMessage(call)),
            [pc |-> IF rest = <<>> THEN "done" ELSE "run", missedCalls |-> rest]>>
     ELSE <<client.Send, [pc |-> "full", missedCalls |-> replay[s].missedCalls]>>

\* A cleanup pass with its comparison inverted.
CleanupExpired_Inverted ==
  [k \in {x \in DOMAIN States : GraceExpired(States[x], now)} |-> States[k]]

\* The cleanup goroutine's loop body: the new value of States.
CleanupExpired ==
  [k \in {x \in DOMAIN States : ~GraceExpired(States[x], now)} |-> States[k]]

\* ------------------------------------------- central_webhooks.go: user access
\* uint64(time.Now().Unix()): the clock of the model starts Epoch seconds
\* after the Unix epoch.
Unix(t) == t + Epoch

\* The PIN of u has expired: pinExpiresAt is not zero and not in the future.
PinExpired(u) ==
  /\ u \in DOMAIN userStore
  /\ userStore[u].PinExpiresAt # 0
  /\ userStore[u].PinExpiresAt <= Unix(now)

\* &Message{Command: MessageCommandError, Payload: "Access revoked by central management"}
ErrorMessage == [Command |-> "error", Payload |-> "Access revoked by central management"]

\* client.User != nil && client.User.Id == user.Id, for a client of Clients.Map
Affected(s, u) ==
  /\ phase[s] = "live"
  /\ clients[s].User # NoUser
  /\ UserTable[clients[s].User].Id = UserTable[u].Id

\* A revocation that removes the user from the store.
RevokeUser_Delete(u) == [v \in DOMAIN userStore \ {u} |-> userStore[v]]

\* user.PinExpiresAt = uint64(time.Now().Unix()); Users.Update(user)
RevokeUser(u) == [userStore EXCEPT ![u].PinExpiresAt = Unix(now)]

\* existingUser.PinExpiresAt = 0; Users.Update(existingUser)
GrantUser(u, systems, talkgroups) ==
  [userStore EXCEPT ![u].PinExpiresAt = 0,
                    ![u].Systems = systems,
                    ![u].Talkgroups = IF talkgroups = NoScope THEN @ ELSE talkgroups]

\* The revoke handler's loop over Clients.Map: the new value of clients.
DisconnectClients(u) ==
  [s \in Sessions |->
     IF Affected(s, u) /\ SendAccepts(clients[s])
     THEN [clients[s] EXCEPT !.Send = Append(@, ErrorMessage)]
     ELSE clients[s]]

\* ------------------------------------------------------------ the dispatcher
\* A fan-out that skips the access check.
LiveGate_NoAccessCheck(s, call) ==
  LET client == clients[s] IN
  /\ (client.User = NoUser => ~userAuthRequired)
  /\ (client.User # NoUser => ~PinExpired(client.User))
  /\ IsEnabled(heap[client.Livefeed], call)

\* Steps 1 to 4 of the fan-out for one session.
LiveGate(s, call) ==
  LET client == clients[s] IN
  /\ (client.User = NoUser => ~userAuthRequired)
  /\ (client.User # NoUser => ~PinExpired(client.User))
  /\ (client.User # NoUser => userHasAccess(client.User, call))
  /\ IsEnabled(heap[client.Livefeed], call)

\* A fan-out that stalls on a full outbox: nobody is served while some
\* eligible session cannot take the message.
LiveDelivered_Blocking(s, call) ==
  /\ phase[s] = "live" /\ LiveGate(s, call) /\ SendAccepts(clients[s])
  /\ \A t \in Sessions :
       (phase[t] = "live" /\ LiveGate(t, call)) => SendAccepts(clients[t])

\* Step 5: the non-blocking enqueue; a refused message is dropped.
LiveDelivered(s, call) ==
  phase[s] = "live" /\ LiveGate(s, call) /\ SendAccepts(clients[s])

\* How many calls the replay goroutine has enqueued to session s so far.
Replayed(s) == Cardinality({i \in 1..Len(enq[s]) : enq[s][i].via = "replay"})

\* A session object exists from its connection until its tasks have ended.
Open(s) == phase[s] \in {"live", "closing"} \/ replay[s].pc = "run"

\* --------------------------------------------------------------- the actions
\* A session logs in as u (or stays anonymous) and is registered; registering
\* runs RestoreClientState for it.  A user whose PIN has expired cannot log in.
\* A connection of session s as user u may be accepted.
CanRegister(s, u) ==
  /\ ~fault
  /\ phase[s] = "idle"
  /\ \A t \in Sessions : t < s => phase[t] # "idle"
  /\ Cardinality({t \in Sessions : Open(t)}) < MaxOpen
  /\ u # NoUser => (u \in DOMAIN userStore /\ ~PinExpired(u))

\* What the registration of session s as user u changes.
Registered(s, u) ==
  /\ LET r == RestoreClientState(s, u)
         k == IF u = NoUser THEN <<"none", 0>> ELSE getUserKey(u)
         found == k \in DOMAIN States
     IN /\ States' = r[1]
        /\ clients' = [clients EXCEPT ![s] = [User |-> u, Livefeed |-> r[2], Send |-> @.Send]]
        /\ replay' = [replay EXCEPT ![s] = r[3]]
        /\ phase' = [phase EXCEPT ![s] = "live"]
        /\ heap' = Collect(heap, States', clients', phase')
        /\ saved' = [x \in DOMAIN States' |-> saved[x]]
        /\ restored' = [restored EXCEPT ![s] =
             IF found
             THEN [found |-> TRUE,
                   age |-> now - States[k].LastSeen,
                   buffer |-> States[k].MissedCalls,
                   handed |-> r[3].missedCalls,
                   want |-> saved[k].want,
                   refusedAt |-> -1]
             ELSE NotRestored]

OnReconnect(s, u) ==
  /\ CanRegister(s, u)
  /\ Registered(s, u)
  /\ UNCHANGED <<dt, now, ticker, swept, config, leaveState, lockState, tagState, audioState, hookState, logState, revoked, cmds, calls, fault, enq>>

\* The session is unregistered and SaveDisconnectedState runs for it; its read
\* task has not exited yet.  Its write task stops: what is left in the outbox
\* is abandoned, unless the replay goroutine still sends to it.
Unregistered(s) ==
  /\ LET r == SaveDisconnectedState(s) IN
       /\ States' = r[1]
       /\ phase' = [phase EXCEPT ![s] = "closing"]
       /\ heap' = Collect(r[2], States', clients, phase')
       /\ IF replay[s].pc = "run"
          THEN UNCHANGED <<clients, enq, restored, revoked>>
          ELSE /\ clients' = [clients EXCEPT ![s].Send = <<>>]
               /\ enq' = [enq EXCEPT ![s] = <<>>]
               /\ restored' = [restored EXCEPT ![s] = NotRestored]
               /\ revoked' = [revoked EXCEPT ![s] = "no"]
       /\ saved' = [k \in DOMAIN States' |->
                      IF k \in DOMAIN States /\ States'[k] = States[k]
                      THEN saved[k]
                      ELSE [want |-> {}, gated |-> <<>>, late |-> {},
                            snap |-> heap[clients[s].Livefeed]]]

OnDisconnect(s) ==
  /\ ~fault
  /\ phase[s] = "live"
  /\ Unregistered(s)
  /\ UNCHANGED <<dt, now, ticker, swept, config, leaveState, lockState, tagState, audioState, hookState, logState, cmds, replay, calls, fault>>

\* The read task of an unregistered session exits.  Once its replay goroutine
\* has ended as well nothing refers to the session object: it is garbage.
ReadTaskExit(s) ==
  /\ ~fault
  /\ phase[s] = "closing"
  /\ phase' = [phase EXCEPT ![s] = "closed"]
  /\ IF replay[s].pc = "run"
     THEN UNCHANGED <<clients, cmds, replay, enq, restored, revoked>>
     ELSE /\ clients' = [clients EXCEPT ![s] = BlankClient(s)]
          /\ cmds' = [cmds EXCEPT ![s] = 0]
          /\ replay' = [replay EXCEPT ![s] = NoReplay]
          /\ enq' = [enq EXCEPT ![s] = <<>>]
          /\ restored' = [restored EXCEPT ![s] = NotRestored]
          /\ revoked' = [revoked EXCEPT ![s] = "no"]
  /\ heap' = Collect(heap, States, clients', phase')
  /\ UNCHANGED <<dt, now, ticker, swept, config, leaveState, lockState, tagState, audioState, hookState, logState, States, calls, fault, saved>>

\* The `livefeed' command: the client replaces its filter matrix.
LivefeedCommand(s, m) ==
  /\ ~fault
  /\ phase[s] \in {"live", "closing"}
  /\ clients[s].User # NoUser
  /\ cmds[s] < MaxCommands
  /\ cmds' = [cmds EXCEPT ![s] = @ + 1]
  /\ heap' = [heap EXCEPT ![clients[s].Livefeed] = m]
  /\ UNCHANGED <<dt, now, ticker, swept, config, leaveState, lockState, tagState, audioState, hookState, logState, revoked, States, phase, clients,
                 replay, calls, fault, enq, saved, restored>>

\* EmitCall: a call is persisted, fanned out to the live sessions and then
\* handed to BufferCallForDisconnected.
EmitCall(kind) ==
  /\ ~fault
  /\ Len(calls) < MaxCalls
  /\ LET id == Len(calls) + 1
         age(k) == now - States[k].LastSeen
         passes(k) == /\ IsEnabled(heap[States[k].Livefeed], kind)
                      /\ (userAuthRequired => userHasAccess(States[k].User, kind))
         wanted(k) == /\ age(k) <= HoldDuration
                      /\ IsEnabled(heap[States[k].Livefeed], kind)
                      /\ userHasAccess(States[k].User, kind)
         noted == [k \in DOMAIN saved |->
                     IF wanted(k) THEN [saved[k] EXCEPT !.want = @ \cup {id}] ELSE saved[k]]
     IN /\ calls' = Append(calls, kind)
        /\ clients' = [s \in Sessions |->
                         IF LiveDelivered(s, kind)
                         THEN [clients[s] EXCEPT !.Send = Append(@, CallMessage(id))]
                         ELSE clients[s]]
        /\ enq' = [s \in Sessions |->
                     IF LiveDelivered(s, kind)
                     THEN Append(enq[s], [id |-> id, via |-> "live"])
                     ELSE enq[s]]
        /\ saved' = [k \in DOMAIN saved |->
                       IF ~passes(k) THEN noted[k]
                       ELSE IF age(k) <= HoldDuration
                       THEN [noted[k] EXCEPT !.gated = Append(@, id)]
                       ELSE [noted[k] EXCEPT !.late = @ \cup {id}]]
        /\ IF rmEnabled /\ \E k \in DOMAIN States :
                              BufferAccepts(States[k], kind) /\ BufferPanics(States[k])
           THEN fault' = TRUE /\ UNCHANGED States
           ELSE States' = BufferCallForDisconnected(id, kind) /\ UNCHANGED fault
  /\ UNCHANGED <<dt, now, ticker, swept, config, leaveState, lockState, tagState, audioState, hookState, logState, revoked, cmds, heap, phase, replay,
                 restored>>

\* One send of the replay goroutine started by RestoreClientState.
ReplaySend(s) ==
  /\ ~fault
  /\ replay[s].pc = "run"
  /\ LET r == ReplayStep(s)
         sent == Len(r[1]) > Len(clients[s].Send)
         ended == phase[s] # "live" /\ r[2].pc # "run"
     IN IF ended
        THEN /\ clients' = [clients EXCEPT ![s] =
                              IF phase[s] = "closed"
                              THEN BlankClient(s)
                              ELSE [@ EXCEPT !.Send = <<>>]]
             /\ cmds' = [cmds EXCEPT ![s] = IF phase[s] = "closed" THEN 0 ELSE @]
             /\ replay' = [replay EXCEPT ![s] = NoReplay]
             /\ enq' = [enq EXCEPT ![s] = <<>>]
             /\ restored' = [restored EXCEPT ![s] = NotRestored]
             /\ revoked' = [revoked EXCEPT ![s] = "no"]
        ELSE /\ clients' = [clients EXCEPT ![s].Send = r[1]]
             /\ replay' = [replay EXCEPT ![s] = r[2]]
             /\ enq' = IF sent
                       THEN [enq EXCEPT ![s] =
                               Append(@, [id |-> r[1][Len(r[1])].Payload, via |-> "replay"])]
                       ELSE enq
             /\ restored' = IF sent \/ restored[s].refusedAt >= 0
                            THEN restored
                            ELSE [restored EXCEPT ![s].refusedAt = Replayed(s)]
             /\ UNCHANGED <<cmds, revoked>>
  /\ heap' = Collect(heap, States, clients', phase)
  /\ UNCHANGED <<dt, now, ticker, swept, config, leaveState, lockState, tagState, audioState, hookState, logState, States, phase, calls, fault, saved>>

\* The write task of a live session takes the next message off its outbox.
WriteTask(s) ==
  /\ ~fault
  /\ phase[s] = "live"
  /\ clients[s].Send # <<>>
  /\ clients' = [clients EXCEPT ![s].Send = Tail(@)]
  /\ UNCHANGED <<dt, now, ticker, swept, config, leaveState, lockState, tagState, audioState, hookState, logState, revoked, cmds, States, heap, phase,
                 replay, calls, fault, enq, saved, restored>>

\* Time passes, but not past a due tick of the cleanup ticker.
Tick ==
  /\ ~fault
  /\ now < MaxTime
  /\ ticker < SweepPeriod
  /\ now' = now + 1
  /\ ticker' = IF ticker = -1 THEN -1 ELSE ticker + 1
  /\ UNCHANGED <<dt, swept, config, leaveState, lockState, tagState, audioState, hookState, logState, revoked, cmds, States, heap, phase, clients, replay,
                 calls, fault, enq, saved, restored>>

\* The cleanup ticker fires: one pass of StartCleanup's loop.
Cleanup ==
  /\ ~fault
  /\ ticker = SweepPeriod
  /\ ticker' = 0
  /\ States' = CleanupExpired
  /\ heap' = Collect(heap, States', clients, phase)
  /\ saved' = [k \in DOMAIN States' |-> saved[k]]
  /\ swept' = (swept \/ DOMAIN States' # DOMAIN States)
  /\ UNCHANGED <<dt, now, config, leaveState, lockState, tagState, audioState, hookState, logState, revoked, cmds, phase, clients, replay, calls, fault,
                 enq, restored>>

\* The checks a management webhook starts with: central management is
\* enabled, and X-API-Key is the configured key.
WebhookStatus(key) ==
  IF ~centralEnabled THEN StatusForbidden
  ELSE IF key # apiKey THEN StatusUnauthorized
  ELSE StatusOK

\* POST /api/webhook/central-user-revoke for the stored user u, with the
\* given X-API-Key.  The sessions it hands to the Unregister channel are
\* unregistered by OnDisconnect.
CentralWebhookUserRevokeHandler(u, key) ==
  /\ ~fault
  /\ hooks < MaxHooks
  /\ u \in DOMAIN userStore
  /\ hooks' = hooks + 1
  /\ lastResponse' = [key |-> key, status |-> WebhookStatus(key)]
  /\ IF WebhookStatus(key) = StatusOK
     THEN /\ userStore' = RevokeUser(u)
          /\ clients' = DisconnectClients(u)
          /\ revoked' = [s \in Sessions |->
                           IF ~(phase[s] = "live" /\ clients[s].User = u) THEN revoked[s]
                           ELSE IF Len(clients[s].Send) < OutboxCap THEN "told" ELSE "untold"]
          /\ revokedAt' = [revokedAt EXCEPT ![u] = now]
     ELSE UNCHANGED <<userStore, clients, revoked, revokedAt>>
  /\ UNCHANGED <<dt, now, ticker, swept, config, leaveState, lockState, tagState, audioState, logState, cmds, States, heap, phase, replay,
                 calls, fault, enq, saved, restored>>

\* POST /api/webhook/central-user-grant for the stored user u, with the PIN
\* it already has, the given systems and talkgroups, and the given X-API-Key.
CentralWebhookUserGrantHandler(u, key, systems, talkgroups) ==
  /\ ~fault
  /\ hooks < MaxHooks
  /\ u \in DOMAIN userStore
  /\ hooks' = hooks + 1
  /\ lastResponse' = [key |-> key, status |-> WebhookStatus(key)]
  /\ IF WebhookStatus(key) = StatusOK
     THEN /\ userStore' = GrantUser(u, systems, talkgroups)
          /\ revokedAt' = [revokedAt EXCEPT ![u] = -1]
     ELSE UNCHANGED <<userStore, revokedAt>>
  /\ UNCHANGED <<dt, now, ticker, swept, config, leaveState, lockState, tagState, audioState, logState, revoked, cmds, States, heap, phase,
                 clients, replay, calls, fault, enq, saved, restored>>

\* GET /api/webhook/central-test with the given X-API-Key and the given
\* api_key query parameter ("" when there is none).
CentralWebhookTestConnectionHandler(key, expectedKey) ==
  /\ ~fault
  /\ hooks < MaxHooks
  /\ hooks' = hooks + 1
  /\ lastResponse' = [key |-> key,
                      status |-> IF key # expectedKey /\ expectedKey # ""
                                 THEN StatusUnauthorized ELSE StatusOK]
  /\ UNCHANGED <<dt, now, ticker, swept, config, leaveState, lockState, tagState, audioState, logState, revoked, cmds, States, heap, phase,
                 clients, replay, calls, fault, enq, saved, restored, userStore, revokedAt>>

\* Ingest of a call, steps 3 and 4: the call is converted as configured and
\* persisted, whatever the conversion returned; it gets the next callId.
IngestCall(call, mode, codec, run) ==
  /\ Len(callStore) < MaxIngest
  /\ LET r == Convert(ffmpeg, call, mode, codec, run)
     IN /\ ffmpeg' = r.ffmpeg
        /\ callStore' = Append(callStore, r.call)
  /\ lastIngest' = [done |-> TRUE, call |-> call,
                    failed |-> mode # "disabled" /\ (~ffmpeg.available \/ ~run)]
  /\ UNCHANGED <<dt, now, ticker, swept, config, leaveState, lockState, tagState, hookState, logState, revoked, cmds, States,
                 heap, phase, clients, replay, calls, fault, enq, saved, restored, migration>>

\* MigrateToOpus(batchSize, dryRun, autoConfirm) up to its batch loop.
MigrateToOpus(batchSize, dryRun) ==
  /\ migration.pc = "idle"
  /\ migration.runs < MaxRuns
  /\ \E queryOk \in BOOLEAN :
     LET totalCalls == Cardinality(EligibleIds(callStore))
         result == IF ~ffmpeg.available THEN "error"
                   ELSE IF totalCalls = 0 THEN "nothing"
                   ELSE IF dryRun THEN "dry"
                   ELSE "running"
     IN migration' = [NoMigration EXCEPT
                        !.pc = IF result = "running" THEN "loop" ELSE "idle",
                        !.result = result,
                        !.runs = migration.runs + 1,
                        !.batchSize = batchSize,
                        !.totalCalls = IF ffmpeg.available THEN totalCalls ELSE 0,
                        !.before = callStore,
                        !.queryOk = queryOk]
  /\ UNCHANGED <<dt, now, ticker, swept, config, leaveState, lockState, tagState, hookState, logState, revoked, cmds, States,
                 heap, phase, clients, replay, calls, fault, enq, saved, restored,
                 ffmpeg, callStore, lastIngest>>

\* The head of the batch loop: the loop ends, or the next batch is selected,
\* or the batch query fails and the loop goes round again (`continue').
\* migration.queryOk tells whether the database answers the batch queries of
\* this run.
MigrateQuery ==
  /\ migration.pc = "loop"
  /\ migration' =
       IF migration.migrated + migration.failed + migration.skipped < migration.totalCalls
       THEN IF migration.queryOk
            THEN [migration EXCEPT !.pc = "rows",
                                   !.batch = FirstBatch(callStore, migration.batchSize),
                                   !.pos = 1, !.batchCount = 0]
            ELSE migration
       ELSE [migration EXCEPT !.pc = "idle", !.result = "complete"]
  /\ UNCHANGED <<dt, now, ticker, swept, config, leaveState, lockState, tagState, hookState, logState, revoked, cmds, States,
                 heap, phase, clients, replay, calls, fault, enq, saved, restored,
                 ffmpeg, callStore, lastIngest>>

\* One row of the batch: its scan fails, or it is already Opus, or its
\* conversion fails, or its update fails, or it is migrated.
MigrateRow(scanOk, updateOk) ==
  /\ migration.pc = "rows"
  /\ migration.pos <= Len(migration.batch)
  /\ LET callId == migration.batch[migration.pos]
         row == callStore[callId]
         opus == ConvertToOpus(row.Audio)
         next == [migration EXCEPT !.pos = @ + 1]
     IN IF ~scanOk
        THEN /\ migration' = [next EXCEPT !.failed = @ + 1,
                                          !.failedIds = @ \cup {callId}]
             /\ UNCHANGED callStore
        ELSE IF row.AudioMime = "audio/opus"
        THEN /\ migration' = [next EXCEPT !.batchCount = @ + 1, !.skipped = @ + 1]
             /\ UNCHANGED callStore
        ELSE IF ~opus.ok \/ ~updateOk
        THEN /\ migration' = [next EXCEPT !.batchCount = @ + 1, !.failed = @ + 1,
                                          !.failedIds = @ \cup {callId}]
             /\ UNCHANGED callStore
        ELSE /\ migration' = [next EXCEPT !.batchCount = @ + 1, !.migrated = @ + 1]
             /\ callStore' = UpdateCall(callStore, callId, opus.audio)
  /\ UNCHANGED <<dt, now, ticker, swept, config, leaveState, lockState, tagState, hookState, logState, revoked, cmds, States,
                 heap, phase, clients, replay, calls, fault, enq, saved, restored,
                 ffmpeg, lastIngest>>

\* The end of a batch: rows.Close(), and the loop ends if no row was read.
MigrateRowsEnd ==
  /\ migration.pc = "rows"
  /\ migration.pos > Len(migration.batch)
  /\ migration' = IF migration.batchCount = 0
                  THEN [migration EXCEPT !.pc = "idle", !.result = "complete"]
                  ELSE [migration EXCEPT !.pc = "loop"]
  /\ UNCHANGED <<dt, now, ticker, swept, config, leaveState, lockState, tagState, hookState, logState, revoked, cmds, States,
                 heap, phase, clients, replay, calls, fault, enq, saved, restored,
                 ffmpeg, callStore, lastIngest>>

\* The process is stopped while the migration runs.
MigrateInterrupt ==
  /\ migration.pc \in {"loop", "rows"}
  /\ migration' = [migration EXCEPT !.pc = "idle", !.result = "interrupted"]
  /\ UNCHANGED <<dt, now, ticker, swept, config, leaveState, lockState, tagState, hookState, logState, revoked, cmds, States,
                 heap, phase, clients, replay, calls, fault, enq, saved, restored,
                 ffmpeg, callStore, lastIngest>>

\* DeviceTokens.Add(token, db) with a token object the caller has just built:
\* the INSERT returns the new id, the object is entered in both maps.  When
\* the INSERT fails nothing changes.
Add(userId, pushType, sound, dbOk) ==
  /\ Len(dt.objects) < MaxObjects
  /\ dt.serial < MaxTokens
  /\ LET id == dt.serial + 1
         p == Len(dt.objects) + 1
     IN dt' = IF ~dbOk THEN dt
              ELSE [dt EXCEPT !.serial = id,
                              !.objects = Append(@, DeviceToken(id, userId, pushType, sound)),
                              !.tokens = id :> p @@ @,
                              !.userTokens[userId] = Append(@, p)]
  /\ UNCHANGED <<now, ticker, swept, config, leaveState, lockState, tagState, hookState,
                 logState, audioState, revoked, cmds, calls, fault, States, heap,
                 phase, clients, replay, enq, saved, restored>>

\* DeviceTokens.Update(token, db).  The caller hands over the object p with
\* the fields `token': an object it got from the registry and changed in
\* place (same Id and UserId), or one it has just built (p is new).  The
\* UPDATE succeeds whether or not a row has the id.
Update(p, token, dbOk) ==
  /\ p \in 1..(Len(dt.objects) + 1)
  /\ p <= MaxObjects
  /\ p <= Len(dt.objects) => /\ token.Id = dt.objects[p].Id
                             /\ token.UserId = dt.objects[p].UserId
  /\ LET objects == IF p <= Len(dt.objects) THEN [dt.objects EXCEPT ![p] = token]
                    ELSE Append(dt.objects, token)
     IN dt' = IF ~dbOk THEN [dt EXCEPT !.objects = objects]
              ELSE [dt EXCEPT !.objects = objects,
                              !.tokens = [id \in DOMAIN @ \cup {token.Id} |->
                                            IF id = token.Id THEN p ELSE @[id]]]
  /\ UNCHANGED <<now, ticker, swept, config, leaveState, lockState, tagState, hookState,
                 logState, audioState, revoked, cmds, calls, fault, States, heap,
                 phase, clients, replay, enq, saved, restored>>

\* DeviceTokens.Delete(id, db): an error for an unknown id or a failed DELETE;
\* otherwise the id leaves the map and its first entry leaves its user's list.
Delete(id, dbOk) ==
  /\ dt' = IF id \notin DOMAIN dt.tokens \/ ~dbOk THEN dt
           ELSE LET token == dt.objects[dt.tokens[id]]
                    userTokens == dt.userTokens[token.UserId]
                    found == {i \in 1..Len(userTokens) : dt.objects[userTokens[i]].Id = id}
                    first == CHOOSE i \in found : \A j \in found : i <= j
                IN [dt EXCEPT !.tokens = [k \in DOMAIN @ \ {id} |-> @[k]],
                              !.userTokens[token.UserId] =
                                IF found = {} THEN @ ELSE RemoveAt(@, first)]
  /\ UNCHANGED <<now, ticker, swept, config, leaveState, lockState, tagState, hookState,
                 logState, audioState, revoked, cmds, calls, fault, States, heap,
                 phase, clients, replay, enq, saved, restored>>

\* DeviceTokens.RemoveAllOneSignalTokensForUser(userId, db), while the DELETE
\* of the ids in `failing' fails: every other OneSignal token of the user's
\* list that the map knows leaves the map and the list.
RemoveAllOneSignalTokensForUser(userId, failing) ==
  /\ LET userTokens == dt.userTokens[userId]
         toDelete == {dt.objects[userTokens[i]].Id : i \in
                        {j \in 1..Len(userTokens) :
                           dt.objects[userTokens[j]].PushType \in {"onesignal", ""}}}
         removed == (toDelete \ failing) \cap DOMAIN dt.tokens
         Kept(p) == dt.objects[p].Id \notin removed
     IN dt' = [dt EXCEPT !.tokens = [k \in DOMAIN @ \ removed |-> @[k]],
                         !.userTokens[userId] = SelectSeq(@, Kept)]
  /\ UNCHANGED <<now, ticker, swept, config, leaveState, lockState, tagState, hookState,
                 logState, audioState, revoked, cmds, calls, fault, States, heap,
                 phase, clients, replay, enq, saved, restored>>

\* Tags.Write(db), while database operation number failAt fails (0: none).
TagsWrite(failAt) ==
  /\ LET r == Write(tagTable, tagList, failAt)
     IN /\ tagTable' = r.table
        /\ tagList' = r.list
        /\ tagWrite' = [done |-> TRUE, err |-> r.err, before |-> tagTable]
  /\ UNCHANGED <<dt, now, ticker, swept, config, leaveState, lockState, hookState, logState, audioState, revoked, cmds,
                 States, heap, phase, clients, replay, calls, fault, enq, saved, restored>>

\* Logs.Search with the given options, while the database does `failure'.
LogsSearch(limitOption, offsetOption, sortOption, dateOption, failure) ==
  /\ CanFail(logRows, limitOption, offsetOption, sortOption, dateOption, failure)
  /\ logResults' = Search(logRows, logZone, limitOption, offsetOption, sortOption,
                          dateOption, failure)
  /\ logFailure' = failure
  /\ UNCHANGED <<dt, now, ticker, swept, config, leaveState, lockState, tagState, audioState, hookState, revoked, cmds, States, heap, phase,
                 clients, replay, calls, fault, enq, saved, restored, logRows, logZone>>

\* Logs.LogEvent: a row is inserted with the current time; in the ascending
\* order of the searches it sorts after the rows already there.
LogEvent ==
  /\ logRows.added < MaxAdded
  /\ logRows' = [logRows EXCEPT !.count = @ + 1, !.added = @ + 1]
  /\ UNCHANGED <<dt, now, ticker, swept, config, leaveState, lockState, tagState, audioState, hookState, revoked, cmds, States, heap, phase,
                 clients, replay, calls, fault, enq, saved, restored, logZone, logResults, logFailure>>

Next ==
  \/ \E s \in Sessions, u \in LoginUsers \cup {NoUser} : OnReconnect(s, u)
  \/ \E s \in Sessions : OnDisconnect(s)
  \/ \E s \in Sessions : ReadTaskExit(s)
  \/ \E s \in Sessions, m \in MatrixInputs : LivefeedCommand(s, m)
  \/ \E kind \in CallKinds : EmitCall(kind)
  \/ \E s \in Sessions : ReplaySend(s)
  \/ \E s \in Sessions : WriteTask(s)
  \/ Tick
  \/ Cleanup

Spec == Init /\ [][Next]_vars

\* The cleanup goroutine runs whenever its ticker fires, and time passes.
LiveSpec == Spec /\ WF_vars(Tick) /\ WF_vars(Cleanup)

\* The server with central management enabled: the management webhooks are
\* served next to everything else.  The manager is enabled, buffers up to
\* MaxBuf calls, and user authentication is required.
ManagedInit ==
  /\ now = 0
  /\ rmEnabled = TRUE
  /\ rmMaxBufferSize = MaxBuf
  /\ userAuthRequired = TRUE
  /\ ticker = 0
  /\ States = [k \in {} |-> 0]
  /\ heap = [l \in Locs |-> EmptyMatrix]
  /\ phase = [s \in Sessions |-> "idle"]
  /\ clients = [s \in Sessions |-> BlankClient(s)]
  /\ cmds = [s \in Sessions |-> 0]
  /\ replay = [s \in Sessions |-> NoReplay]
  /\ calls = <<>>
  /\ fault = FALSE
  /\ enq = [s \in Sessions |-> <<>>]
  /\ saved = [k \in {} |-> 0]
  /\ restored = [s \in Sessions |-> NotRestored]
  /\ swept = FALSE
  /\ centralEnabled = TRUE
  /\ userStore = NewUsers
  /\ hooks = 0
  /\ apiKey = ManagementKey
  /\ lastResponse = NoResponse
  /\ mutex = NoLocks
  /\ revoke = NoRevoke
  /\ restore = NoRestore
  /\ Unregister = <<>>
  /\ controller = NoReceive
  /\ cms = NoRemovalCode
  /\ leave = [r \in LeaveRequests |-> NoLeave]
  /\ revoked = [s \in Sessions |-> "no"]
  /\ revokedAt = [u \in Users |-> -1]
  /\ logRows = NoRows
  /\ logZone = 0
  /\ logResults = NoResults
  /\ logFailure = NoFailure
  /\ ffmpeg = NewFFMpeg(TRUE, TRUE)
  /\ callStore = <<>>
  /\ lastIngest = NoIngest
  /\ migration = NoMigration
  /\ tagTable = NoTags
  /\ tagList = <<>>
  /\ tagWrite = NoWrite
  /\ dt = NewDeviceTokens

ManagedNext ==
  \/ \E s \in Sessions, u \in LoginUsers \cup {NoUser} : OnReconnect(s, u)
  \/ \E s \in Sessions : OnDisconnect(s)
  \/ \E s \in Sessions : ReadTaskExit(s)
  \/ \E s \in Sessions, m \in MatrixInputs : LivefeedCommand(s, m)
  \/ \E kind \in CallKinds : EmitCall(kind)
  \/ \E s \in Sessions : ReplaySend(s)
  \/ \E s \in Sessions : WriteTask(s)
  \/ Tick
  \/ Cleanup
  \/ \E u \in LoginUsers : CentralWebhookUserRevokeHandler(u, apiKey)
  \/ \E u \in LoginUsers :
       CentralWebhookUserGrantHandler(u, apiKey, userStore[u].Systems, userStore[u].Talkgroups)

ManagedSpec == ManagedInit /\ [][ManagedNext]_vars

\* The log search over a store of rows: the sessions play no part.
SearchInit ==
  /\ now = 0
  /\ rmEnabled = FALSE
  /\ rmMaxBufferSize = 0
  /\ userAuthRequired = FALSE
  /\ ticker = -1
  /\ States = [k \in {} |-> 0]
  /\ heap = [l \in Locs |-> EmptyMatrix]
  /\ phase = [s \in Sessions |-> "idle"]
  /\ clients = [s \in Sessions |-> BlankClient(s)]
  /\ cmds = [s \in Sessions |-> 0]
  /\ replay = [s \in Sessions |-> NoReplay]
  /\ calls = <<>>
  /\ fault = FALSE
  /\ enq = [s \in Sessions |-> <<>>]
  /\ saved = [k \in {} |-> 0]
  /\ restored = [s \in Sessions |-> NotRestored]
  /\ swept = FALSE
  /\ centralEnabled = FALSE
  /\ userStore = NewUsers
  /\ hooks = 0
  /\ apiKey = ManagementKey
  /\ lastResponse = NoResponse
  /\ mutex = NoLocks
  /\ revoke = NoRevoke
  /\ restore = NoRestore
  /\ Unregister = <<>>
  /\ controller = NoReceive
  /\ cms = NoRemovalCode
  /\ leave = [r \in LeaveRequests |-> NoLeave]
  /\ revoked = [s \in Sessions |-> "no"]
  /\ revokedAt = [u \in Users |-> -1]
  /\ \E n \in RowCounts, b \in SUBSET (1..MaxBadRow) :
       logRows = [NoRows EXCEPT !.count = n, !.bad = b]
  /\ logZone = 0
  /\ logResults = NoResults
  /\ logFailure = NoFailure
  /\ ffmpeg = NewFFMpeg(TRUE, TRUE)
  /\ callStore = <<>>
  /\ lastIngest = NoIngest
  /\ migration = NoMigration
  /\ tagTable = NoTags
  /\ tagList = <<>>
  /\ tagWrite = NoWrite
  /\ dt = NewDeviceTokens

SearchNext ==
  \/ \E l \in LimitOptions, o \in OffsetOptions : LogsSearch(l, o, NoOption, NoOption, NoFailure)
  \/ LogEvent

SearchSpec == SearchInit /\ [][SearchNext]_vars

\* Searches with every option over small tables that hold rows of every
\* kind of timestamp, on servers of several time zones.
WindowLimits == {NoOption, Option(1), Option(2)}
WindowOffsets == {NoOption, Option(1)}

WindowInit ==
  /\ now = 0
  /\ rmEnabled = FALSE
  /\ rmMaxBufferSize = 0
  /\ userAuthRequired = FALSE
  /\ ticker = -1
  /\ States = [k \in {} |-> 0]
  /\ heap = [l \in Locs |-> EmptyMatrix]
  /\ phase = [s \in Sessions |-> "idle"]
  /\ clients = [s \in Sessions |-> BlankClient(s)]
  /\ cmds = [s \in Sessions |-> 0]
  /\ replay = [s \in Sessions |-> NoReplay]
  /\ calls = <<>>
  /\ fault = FALSE
  /\ enq = [s \in Sessions |-> <<>>]
  /\ saved = [k \in {} |-> 0]
  /\ restored = [s \in Sessions |-> NotRestored]
  /\ swept = FALSE
  /\ centralEnabled = FALSE
  /\ userStore = NewUsers
  /\ hooks = 0
  /\ apiKey = ManagementKey
  /\ lastResponse = NoResponse
  /\ mutex = NoLocks
  /\ revoke = NoRevoke
  /\ restore = NoRestore
  /\ Unregister = <<>>
  /\ controller = NoReceive
  /\ cms = NoRemovalCode
  /\ leave = [r \in LeaveRequests |-> NoLeave]
  /\ revoked = [s \in Sessions |-> "no"]
  /\ revokedAt = [u \in Users |-> -1]
  /\ \E n \in 0..MaxRecent, o \in 0..MaxOld, d \in {{}, {LastHourRow}, OddRows},
        b \in {{}, {1}} :
       logRows = [count |-> n, bad |-> b, added |-> 0, old |-> o, odd |-> d]
  /\ logZone \in (0 - MaxZone)..MaxZone
  /\ logResults = NoResults
  /\ logFailure = NoFailure
  /\ ffmpeg = NewFFMpeg(TRUE, TRUE)
  /\ callStore = <<>>
  /\ lastIngest = NoIngest
  /\ migration = NoMigration
  /\ tagTable = NoTags
  /\ tagList = <<>>
  /\ tagWrite = NoWrite
  /\ dt = NewDeviceTokens

WindowNext ==
  \/ \E l \in WindowLimits, o \in WindowOffsets, x \in SortOptions, d \in DateOptions :
       LogsSearch(l, o, x, d, NoFailure)
  \/ LogEvent

WindowSpec == WindowInit /\ [][WindowNext]_vars

\* Searches over small tables while the database fails in every way.
FaultInit ==
  /\ now = 0
  /\ rmEnabled = FALSE
  /\ rmMaxBufferSize = 0
  /\ userAuthRequired = FALSE
  /\ ticker = -1
  /\ States = [k \in {} |-> 0]
  /\ heap = [l \in Locs |-> EmptyMatrix]
  /\ phase = [s \in Sessions |-> "idle"]
  /\ clients = [s \in Sessions |-> BlankClient(s)]
  /\ cmds = [s \in Sessions |-> 0]
  /\ replay = [s \in Sessions |-> NoReplay]
  /\ calls = <<>>
  /\ fault = FALSE
  /\ enq = [s \in Sessions |-> <<>>]
  /\ saved = [k \in {} |-> 0]
  /\ restored = [s \in Sessions |-> NotRestored]
  /\ swept = FALSE
  /\ centralEnabled = FALSE
  /\ userStore = NewUsers
  /\ hooks = 0
  /\ apiKey = ManagementKey
  /\ lastResponse = NoResponse
  /\ mutex = NoLocks
  /\ revoke = NoRevoke
  /\ restore = NoRestore
  /\ Unregister = <<>>
  /\ controller = NoReceive
  /\ cms = NoRemovalCode
  /\ leave = [r \in LeaveRequests |-> NoLeave]
  /\ revoked = [s \in Sessions |-> "no"]
  /\ revokedAt = [u \in Users |-> -1]
  /\ \E n \in 0..(MaxRead + 1), b \in {{}, {1}} :
       logRows = [NoRows EXCEPT !.count = n, !.bad = b]
  /\ logZone = 0
  /\ logResults = NoResults
  /\ logFailure = NoFailure
  /\ ffmpeg = NewFFMpeg(TRUE, TRUE)
  /\ callStore = <<>>
  /\ lastIngest = NoIngest
  /\ migration = NoMigration
  /\ tagTable = NoTags
  /\ tagList = <<>>
  /\ tagWrite = NoWrite
  /\ dt = NewDeviceTokens

FaultNext ==
  \/ \E l \in WindowLimits, o \in WindowOffsets, x \in SortOptions, f \in Failures :
       LogsSearch(l, o, x, NoOption, f)
  \/ LogEvent

FaultSpec == FaultInit /\ [][FaultNext]_vars

\* Ingest of calls on servers with and without the media tool.
ConvertInit ==
  /\ now = 0
  /\ rmEnabled = FALSE
  /\ rmMaxBufferSize = 0
  /\ userAuthRequired = FALSE
  /\ ticker = -1
  /\ States = [k \in {} |-> 0]
  /\ heap = [l \in Locs |-> EmptyMatrix]
  /\ phase = [s \in Sessions |-> "idle"]
  /\ clients = [s \in Sessions |-> BlankClient(s)]
  /\ cmds = [s \in Sessions |-> 0]
  /\ replay = [s \in Sessions |-> NoReplay]
  /\ calls = <<>>
  /\ fault = FALSE
  /\ enq = [s \in Sessions |-> <<>>]
  /\ saved = [k \in {} |-> 0]
  /\ restored = [s \in Sessions |-> NotRestored]
  /\ swept = FALSE
  /\ centralEnabled = FALSE
  /\ userStore = NewUsers
  /\ hooks = 0
  /\ apiKey = ManagementKey
  /\ lastResponse = NoResponse
  /\ mutex = NoLocks
  /\ revoke = NoRevoke
  /\ restore = NoRestore
  /\ Unregister = <<>>
  /\ controller = NoReceive
  /\ cms = NoRemovalCode
  /\ leave = [r \in LeaveRequests |-> NoLeave]
  /\ revoked = [s \in Sessions |-> "no"]
  /\ revokedAt = [u \in Users |-> -1]
  /\ logRows = NoRows
  /\ logZone = 0
  /\ logResults = NoResults
  /\ logFailure = NoFailure
  /\ \E a \in BOOLEAN, v \in BOOLEAN : ffmpeg = NewFFMpeg(a, v)
  /\ callStore = <<>>
  /\ lastIngest = NoIngest
  /\ migration = NoMigration
  /\ tagTable = NoTags
  /\ tagList = <<>>
  /\ tagWrite = NoWrite
  /\ dt = NewDeviceTokens

ConvertNext ==
  \E mime \in IngestMimes, ext \in IngestExts, mode \in ConversionModes,
     codec \in Codecs, run \in BOOLEAN :
    IngestCall(Call(Blob(Len(callStore) + 1, "original"), mime, Filename("call", ext)),
               mode, codec, run)

ConvertSpec == ConvertInit /\ [][ConvertNext]_vars

\* The migration tool run, interrupted and run again over tables of every
\* mix of calls.
MigrateInit ==
  /\ now = 0
  /\ rmEnabled = FALSE
  /\ rmMaxBufferSize = 0
  /\ userAuthRequired = FALSE
  /\ ticker = -1
  /\ States = [k \in {} |-> 0]
  /\ heap = [l \in Locs |-> EmptyMatrix]
  /\ phase = [s \in Sessions |-> "idle"]
  /\ clients = [s \in Sessions |-> BlankClient(s)]
  /\ cmds = [s \in Sessions |-> 0]
  /\ replay = [s \in Sessions |-> NoReplay]
  /\ calls = <<>>
  /\ fault = FALSE
  /\ enq = [s \in Sessions |-> <<>>]
  /\ saved = [k \in {} |-> 0]
  /\ restored = [s \in Sessions |-> NotRestored]
  /\ swept = FALSE
  /\ centralEnabled = FALSE
  /\ userStore = NewUsers
  /\ hooks = 0
  /\ apiKey = ManagementKey
  /\ lastResponse = NoResponse
  /\ mutex = NoLocks
  /\ revoke = NoRevoke
  /\ restore = NoRestore
  /\ Unregister = <<>>
  /\ controller = NoReceive
  /\ cms = NoRemovalCode
  /\ leave = [r \in LeaveRequests |-> NoLeave]
  /\ revoked = [s \in Sessions |-> "no"]
  /\ revokedAt = [u \in Users |-> -1]
  /\ logRows = NoRows
  /\ logZone = 0
  /\ logResults = NoResults
  /\ logFailure = NoFailure
  /\ \E a \in BOOLEAN : ffmpeg = NewFFMpeg(a, TRUE)
  /\ callStore \in Stores
  /\ lastIngest = NoIngest
  /\ migration = NoMigration
  /\ tagTable = NoTags
  /\ tagList = <<>>
  /\ tagWrite = NoWrite
  /\ dt = NewDeviceTokens

MigrateNext ==
  \/ \E b \in 1..MaxBatch, dry \in BOOLEAN : MigrateToOpus(b, dry)
  \/ MigrateQuery
  \/ \E scanOk \in BOOLEAN, updateOk \in BOOLEAN : MigrateRow(scanOk, updateOk)
  \/ MigrateRowsEnd
  \/ MigrateInterrupt

MigrateSpec == MigrateInit /\ [][MigrateNext]_vars

\* The migration runs on: every step of the batch loop that can be taken is
\* taken.  Nothing makes a failing database answer, and nothing interrupts.
MigrateLiveSpec ==
  /\ MigrateSpec
  /\ WF_vars(MigrateQuery)
  /\ WF_vars(\E scanOk \in BOOLEAN, updateOk \in BOOLEAN : MigrateRow(scanOk, updateOk))
  /\ WF_vars(MigrateRowsEnd)

\* The bulk mutations: admin tag writes and the migration, with failures.
BulkInit ==
  /\ now = 0
  /\ rmEnabled = FALSE
  /\ rmMaxBufferSize = 0
  /\ userAuthRequired = FALSE
  /\ ticker = -1
  /\ States = [k \in {} |-> 0]
  /\ heap = [l \in Locs |-> EmptyMatrix]
  /\ phase = [s \in Sessions |-> "idle"]
  /\ clients = [s \in Sessions |-> BlankClient(s)]
  /\ cmds = [s \in Sessions |-> 0]
  /\ replay = [s \in Sessions |-> NoReplay]
  /\ calls = <<>>
  /\ fault = FALSE
  /\ enq = [s \in Sessions |-> <<>>]
  /\ saved = [k \in {} |-> 0]
  /\ restored = [s \in Sessions |-> NotRestored]
  /\ swept = FALSE
  /\ centralEnabled = FALSE
  /\ userStore = NewUsers
  /\ hooks = 0
  /\ apiKey = ManagementKey
  /\ lastResponse = NoResponse
  /\ mutex = NoLocks
  /\ revoke = NoRevoke
  /\ restore = NoRestore
  /\ Unregister = <<>>
  /\ controller = NoReceive
  /\ cms = NoRemovalCode
  /\ leave = [r \in LeaveRequests |-> NoLeave]
  /\ revoked = [s \in Sessions |-> "no"]
  /\ revokedAt = [u \in Users |-> -1]
  /\ logRows = NoRows
  /\ logZone = 0
  /\ logResults = NoResults
  /\ logFailure = NoFailure
  /\ ffmpeg = NewFFMpeg(TRUE, TRUE)
  /\ callStore \in {st \in Stores : Len(st) = 2}
  /\ lastIngest = NoIngest
  /\ migration = NoMigration
  /\ tagTable \in TagTables
  /\ tagList \in TagLists
  /\ tagWrite = NoWrite
  /\ dt = NewDeviceTokens

BulkNext ==
  \/ \E failAt \in 0..MaxOps : TagsWrite(failAt)
  \/ \E b \in 1..MaxBatch : MigrateToOpus(b, FALSE)
  \/ MigrateQuery
  \/ \E updateOk \in BOOLEAN : MigrateRow(TRUE, updateOk)
  \/ MigrateRowsEnd
  \/ MigrateInterrupt

BulkSpec == BulkInit /\ [][BulkNext]_vars

\* The device-token registry, used with every input and database outcome;
\* the rest of the server is at rest.
TokenInit ==
  /\ SearchInit
  /\ logRows = NoRows

TokenNext ==
  \/ \E u \in DeviceUsers, t \in PushTypes, x \in Sounds, dbOk \in BOOLEAN : Add(u, t, x, dbOk)
  \/ \E p \in 1..MaxObjects, token \in DeviceTokenInputs, dbOk \in BOOLEAN :
       Update(p, token, dbOk)
  \/ \E id \in 1..MaxTokens, dbOk \in BOOLEAN : Delete(id, dbOk)
  \/ \E u \in DeviceUsers, failing \in SUBSET (1..MaxTokens) :
       RemoveAllOneSignalTokensForUser(u, failing)

TokenSpec == TokenInit /\ [][TokenNext]_vars

\* The management webhooks called with any key, on servers with central
\* management enabled or not, with or without a key configured.
WebhookInit ==
  /\ now = 0
  /\ rmEnabled = FALSE
  /\ rmMaxBufferSize = 0
  /\ userAuthRequired = TRUE
  /\ ticker = -1
  /\ States = [k \in {} |-> 0]
  /\ heap = [l \in Locs |-> EmptyMatrix]
  /\ phase = [s \in Sessions |-> "idle"]
  /\ clients = [s \in Sessions |-> BlankClient(s)]
  /\ cmds = [s \in Sessions |-> 0]
  /\ replay = [s \in Sessions |-> NoReplay]
  /\ calls = <<>>
  /\ fault = FALSE
  /\ enq = [s \in Sessions |-> <<>>]
  /\ saved = [k \in {} |-> 0]
  /\ restored = [s \in Sessions |-> NotRestored]
  /\ swept = FALSE
  /\ centralEnabled \in BOOLEAN
  /\ userStore = NewUsers
  /\ hooks = 0
  /\ apiKey \in {"", ManagementKey}
  /\ lastResponse = NoResponse
  /\ mutex = NoLocks
  /\ revoke = NoRevoke
  /\ restore = NoRestore
  /\ Unregister = <<>>
  /\ controller = NoReceive
  /\ cms = NoRemovalCode
  /\ leave = [r \in LeaveRequests |-> NoLeave]
  /\ revoked = [s \in Sessions |-> "no"]
  /\ revokedAt = [u \in Users |-> -1]
  /\ logRows = NoRows
  /\ logZone = 0
  /\ logResults = NoResults
  /\ logFailure = NoFailure
  /\ ffmpeg = NewFFMpeg(TRUE, TRUE)
  /\ callStore = <<>>
  /\ lastIngest = NoIngest
  /\ migration = NoMigration
  /\ tagTable = NoTags
  /\ tagList = <<>>
  /\ tagWrite = NoWrite
  /\ dt = NewDeviceTokens

WebhookNext ==
  \/ \E u \in LoginUsers, key \in RequestKeys : CentralWebhookUserRevokeHandler(u, key)
  \/ \E u \in LoginUsers, key \in RequestKeys :
       CentralWebhookUserGrantHandler(u, key, userStore[u].Systems, userStore[u].Talkgroups)
  \/ \E key \in RequestKeys, expected \in RequestKeys :
       CentralWebhookTestConnectionHandler(key, expected)
  \/ \E s \in Sessions, u \in LoginUsers : OnReconnect(s, u)
  \/ \E s \in Sessions : OnDisconnect(s)
  \/ Tick

WebhookSpec == WebhookInit /\ [][WebhookNext]_vars

\* The revoke webhook, the restore of a connecting session and the controller's
\* unregistration, step by step, with the locks they take.
sessionState == <<States, heap, phase, clients, replay, enq, saved, restored>>

\* The revoke webhook up to its lock: the checks, and the PIN expired in the
\* user store.
RevokeBegin(u, key) ==
  /\ ~fault
  /\ revoke.pc = "idle"
  /\ hooks < MaxHooks
  /\ u \in DOMAIN userStore
  /\ hooks' = hooks + 1
  /\ lastResponse' = [key |-> key, status |-> WebhookStatus(key)]
  /\ IF WebhookStatus(key) = StatusOK
     THEN /\ userStore' = RevokeUser(u)
          /\ revokedAt' = [revokedAt EXCEPT ![u] = now]
          /\ revoke' = [NoRevoke EXCEPT !.pc = "lock", !.user = u]
     ELSE UNCHANGED <<userStore, revokedAt, revoke>>
  /\ UNCHANGED <<dt, now, ticker, swept, config, leaveState, tagState, audioState, logState, sessionState, cmds, calls,
                 fault, revoked, mutex, restore, Unregister, controller>>

\* Clients.mutex.Lock(), and the range over the registry's map begins.
RevokeLock ==
  /\ revoke.pc = "lock"
  /\ mutex.Clients = ""
  /\ mutex' = [mutex EXCEPT !.Clients = "revoke"]
  /\ revoke' = [revoke EXCEPT !.pc = "range",
                              !.todo = {s \in Sessions : Affected(s, revoke.user)}]
  /\ UNCHANGED <<dt, now, ticker, swept, config, leaveState, tagState, audioState, logState, hookState, sessionState, cmds,
                 calls, fault, revoked, restore, Unregister, controller>>

\* The next client of the revoked user: the error message is offered to its
\* outbox without waiting.
RevokeSend(s) ==
  /\ revoke.pc = "range"
  /\ s \in revoke.todo
  /\ clients' = [clients EXCEPT ![s].Send =
                   IF SendAccepts(clients[s]) THEN Append(@, ErrorMessage) ELSE @]
  /\ revoked' = [revoked EXCEPT ![s] = IF SendAccepts(clients[s]) THEN "told" ELSE "untold"]
  /\ revoke' = [revoke EXCEPT !.pc = "unregister", !.client = s, !.todo = @ \ {s}]
  /\ UNCHANGED <<dt, now, ticker, swept, config, leaveState, tagState, audioState, logState, hookState, States, heap, phase,
                 replay, enq, saved, restored, cmds, calls, fault, mutex, restore, Unregister, controller>>

\* api.Controller.Unregister <- client: the handler waits until the channel
\* takes the client.
RevokeUnregister ==
  /\ revoke.pc = "unregister"
  /\ Len(Unregister) < UnregisterCap
  /\ Unregister' = Append(Unregister, revoke.client)
  /\ revoke' = [revoke EXCEPT !.pc = "range", !.client = 0]
  /\ UNCHANGED <<dt, now, ticker, swept, config, leaveState, tagState, audioState, logState, hookState, sessionState, cmds,
                 calls, fault, revoked, mutex, restore, controller>>

\* The range is over: Clients.mutex.Unlock().
RevokeUnlock ==
  /\ revoke.pc = "range"
  /\ revoke.todo = {}
  /\ mutex' = [mutex EXCEPT !.Clients = ""]
  /\ revoke' = NoRevoke
  /\ UNCHANGED <<dt, now, ticker, swept, config, leaveState, tagState, audioState, logState, hookState, sessionState, cmds,
                 calls, fault, revoked, restore, Unregister, controller>>

\* RestoreClientState for the connecting session s of user u: rm.mutex.Lock().
RestoreLock(s, u) ==
  /\ restore.pc = "idle"
  /\ CanRegister(s, u)
  /\ rmEnabled /\ u # NoUser
  /\ mutex.rm = ""
  /\ mutex' = [mutex EXCEPT !.rm = "restore"]
  /\ restore' = [pc |-> "locked", client |-> s, user |-> u]
  /\ UNCHANGED <<dt, now, ticker, swept, config, leaveState, tagState, audioState, logState, hookState, sessionState, cmds,
                 calls, fault, revoked, revoke, Unregister, controller>>

\* The record is looked up, handed over and deleted, and rm.mutex.Unlock();
\* the replay goroutine starts after it.  The session is in the registry from
\* here on; the registry does not change while its lock is held.
RestoreUnlock ==
  /\ restore.pc = "locked"
  /\ mutex.Clients = ""
  /\ Registered(restore.client, restore.user)
  /\ mutex' = [mutex EXCEPT !.rm = ""]
  /\ restore' = NoRestore
  /\ UNCHANGED <<dt, now, ticker, swept, config, leaveState, tagState, audioState, logState, hookState, cmds, calls, fault,
                 enq, revoked, revoke, Unregister, controller>>

\* The controller's loop takes a session from its Unregister channel.
ControllerReceive ==
  /\ controller.pc = "select"
  /\ Unregister # <<>>
  /\ controller' = [pc |-> "remove", client |-> Head(Unregister)]
  /\ Unregister' = Tail(Unregister)
  /\ UNCHANGED <<dt, now, ticker, swept, config, leaveState, tagState, audioState, logState, hookState, sessionState, cmds,
                 calls, fault, revoked, mutex, revoke, restore>>

\* The controller removes the session from the registry, under the registry's
\* lock, and SaveDisconnectedState runs for it, under the manager's.
ControllerUnregister ==
  /\ controller.pc = "remove"
  /\ mutex.Clients = ""
  /\ mutex.rm = ""
  /\ IF phase[controller.client] = "live"
     THEN Unregistered(controller.client)
     ELSE UNCHANGED <<States, heap, phase, clients, enq, saved, restored, revoked>>
  /\ controller' = NoReceive
  /\ UNCHANGED <<dt, now, ticker, swept, config, leaveState, tagState, audioState, logState, hookState, replay, cmds, calls,
                 fault, mutex, revoke, restore, Unregister>>

\* Central management and the manager enabled, and any number of sessions of
\* user u2 live already.
LockInit ==
  /\ now = 0
  /\ rmEnabled = TRUE
  /\ rmMaxBufferSize = MaxBuf
  /\ userAuthRequired = TRUE
  /\ ticker = 0
  /\ States = [k \in {} |-> 0]
  /\ heap = [l \in Locs |-> EmptyMatrix]
  /\ \E n \in 0..NumSessions :
       /\ phase = [s \in Sessions |-> IF s <= n THEN "live" ELSE "idle"]
       /\ clients = [s \in Sessions |->
                      IF s <= n THEN [BlankClient(s) EXCEPT !.User = "u2"] ELSE BlankClient(s)]
  /\ cmds = [s \in Sessions |-> 0]
  /\ replay = [s \in Sessions |-> NoReplay]
  /\ calls = <<>>
  /\ fault = FALSE
  /\ enq = [s \in Sessions |-> <<>>]
  /\ saved = [k \in {} |-> 0]
  /\ restored = [s \in Sessions |-> NotRestored]
  /\ swept = FALSE
  /\ centralEnabled = TRUE
  /\ userStore = NewUsers
  /\ hooks = 0
  /\ apiKey = ManagementKey
  /\ lastResponse = NoResponse
  /\ mutex = NoLocks
  /\ revoke = NoRevoke
  /\ restore = NoRestore
  /\ Unregister = <<>>
  /\ controller = NoReceive
  /\ cms = NoRemovalCode
  /\ leave = [r \in LeaveRequests |-> NoLeave]
  /\ revoked = [s \in Sessions |-> "no"]
  /\ revokedAt = [u \in Users |-> -1]
  /\ logRows = NoRows
  /\ logZone = 0
  /\ logResults = NoResults
  /\ logFailure = NoFailure
  /\ ffmpeg = NewFFMpeg(TRUE, TRUE)
  /\ callStore = <<>>
  /\ lastIngest = NoIngest
  /\ migration = NoMigration
  /\ tagTable = NoTags
  /\ tagList = <<>>
  /\ tagWrite = NoWrite
  /\ dt = NewDeviceTokens

LockNext ==
  \/ \E u \in LoginUsers, key \in RequestKeys : RevokeBegin(u, key)
  \/ RevokeLock
  \/ \E s \in Sessions : RevokeSend(s)
  \/ RevokeUnregister
  \/ RevokeUnlock
  \/ \E s \in Sessions, u \in LoginUsers : RestoreLock(s, u)
  \/ RestoreUnlock
  \/ ControllerReceive
  \/ ControllerUnregister

LockSpec == LockInit /\ [][LockNext]_vars

\* The scheduler runs every process that can take a step.
LockLiveSpec ==
  /\ LockSpec
  /\ WF_vars(RevokeLock)
  /\ WF_vars(\E s \in Sessions : RevokeSend(s))
  /\ WF_vars(RevokeUnregister)
  /\ WF_vars(RevokeUnlock)
  /\ WF_vars(RestoreUnlock)
  /\ WF_vars(ControllerReceive)
  /\ WF_vars(ControllerUnregister)

\* The process is at an operation that waits: the handler at its send to the
\* Unregister channel, the controller at its receive.  Between its Lock and
\* its Unlock the restore works on the map of records only.
AtBlocking(p) ==
  \/ p = "revoke" /\ revoke.pc = "unregister"
  \/ p = "controller" /\ controller.pc = "select"

\* POST /api/central-management/set-removal-code with the given X-API-Key and code.
SetRemovalCodeHandler(key, code) ==
  /\ ~fault
  /\ hooks < MaxHooks
  /\ hooks' = hooks + 1
  /\ LET status == IF ~centralEnabled THEN StatusForbidden
                   ELSE IF key = "" \/ key # apiKey THEN StatusUnauthorized
                   ELSE IF Normalised(code) = "" THEN StatusBadRequest
                   ELSE IF ~cms.running THEN StatusInternalServerError
                   ELSE StatusOK
     IN /\ lastResponse' = [key |-> key, status |-> status]
        /\ cms' = IF status = StatusOK
                  THEN [cms EXCEPT !.removalCode = Normalised(code),
                                   !.removalCodeExpiry = now + RemovalCodeLifetime,
                                   !.issue = @ + 1]
                  ELSE cms
  /\ UNCHANGED <<dt, now, ticker, swept, config, lockState, tagState, audioState, logState, sessionState, cmds,
                 calls, fault, revoked, userStore, revokedAt, leave>>

\* POST /api/central-management/leave, request r, up to its read of the
\* removal code: the admin token is valid or not, and the code is the given one.
LeaveBegin(r, token, code) ==
  /\ ~fault
  /\ leave[r].pc = "idle"
  /\ leave' = [leave EXCEPT ![r] =
       IF ~token THEN [@ EXCEPT !.pc = "done", !.status = StatusUnauthorized]
       ELSE IF Normalised(code) = "" \/ ~cms.running
       THEN [@ EXCEPT !.pc = "done", !.status = StatusBadRequest]
       ELSE [pc |-> "validate", entered |-> Normalised(code), validCode |-> cms.removalCode,
             expiry |-> cms.removalCodeExpiry, issue |-> cms.issue, status |-> 0]]
  /\ UNCHANGED <<dt, now, ticker, swept, config, lockState, tagState, audioState, logState, hookState,
                 sessionState, cmds, calls, fault, revoked, cms>>

\* The tests on the code the request has read.
LeaveValidate(r) ==
  /\ leave[r].pc = "validate"
  /\ IF leave[r].validCode = ""
     THEN /\ leave' = [leave EXCEPT ![r].pc = "done", ![r].status = StatusBadRequest]
          /\ UNCHANGED cms
     ELSE IF now > leave[r].expiry
     THEN /\ leave' = [leave EXCEPT ![r].pc = "done", ![r].status = StatusBadRequest]
          /\ cms' = [cms EXCEPT !.removalCode = ""]
     ELSE IF leave[r].entered # leave[r].validCode
     THEN /\ leave' = [leave EXCEPT ![r].pc = "done", ![r].status = StatusUnauthorized]
          /\ UNCHANGED cms
     ELSE /\ leave' = [leave EXCEPT ![r].pc = "clear"]
          /\ UNCHANGED cms
  /\ UNCHANGED <<dt, now, ticker, swept, config, lockState, tagState, audioState, logState, hookState,
                 sessionState, cmds, calls, fault, revoked>>

\* The code is valid: it is cleared, and the management system is notified.
LeaveClear(r) ==
  /\ leave[r].pc = "clear"
  /\ cms' = [cms EXCEPT !.removalCode = ""]
  /\ leave' = [leave EXCEPT ![r].pc = "unlink"]
  /\ UNCHANGED <<dt, now, ticker, swept, config, lockState, tagState, audioState, logState, hookState,
                 sessionState, cmds, calls, fault, revoked>>

\* cms.Stop(), the settings of central management are cleared, and the
\* request is answered.  Stop closes the service's channel: on a service
\* already stopped it panics, and the request is not answered.
LeaveUnlink(r) ==
  /\ leave[r].pc = "unlink"
  /\ IF cms.running
     THEN /\ cms' = [cms EXCEPT !.running = FALSE]
          /\ centralEnabled' = FALSE
          /\ apiKey' = ""
          /\ leave' = [leave EXCEPT ![r].pc = "done", ![r].status = StatusOK]
     ELSE /\ leave' = [leave EXCEPT ![r].pc = "panic"]
          /\ UNCHANGED <<cms, centralEnabled, apiKey>>
  /\ UNCHANGED <<dt, now, ticker, swept, rmEnabled, rmMaxBufferSize, userAuthRequired, lockState, tagState,
                 audioState, logState, hookState, sessionState, cmds, calls, fault, revoked>>

LeaveInit ==
  /\ ManagedInit

LeaveNext ==
  \/ \E key \in RequestKeys, code \in RemovalCodes : SetRemovalCodeHandler(key, code)
  \/ \E r \in LeaveRequests, token \in BOOLEAN, code \in RemovalCodes : LeaveBegin(r, token, code)
  \/ \E r \in LeaveRequests : LeaveValidate(r)
  \/ \E r \in LeaveRequests : LeaveClear(r)
  \/ \E r \in LeaveRequests : LeaveUnlink(r)
  \/ Tick

LeaveSpec == LeaveInit /\ [][LeaveNext]_vars

\* The reconnection manager under central management that changes the access
\* of a user between its sessions.
GrantedSystems == {Enumerated({1})}
GrantedTalkgroups == {NoScope, Wildcard, Enumerated({200})}

AccessInit ==
  /\ ManagedInit

AccessNext ==
  \/ \E s \in Sessions, u \in LoginUsers : OnReconnect(s, u)
  \/ \E s \in Sessions : OnDisconnect(s)
  \/ \E s \in Sessions, m \in MatrixInputs : LivefeedCommand(s, m)
  \/ \E kind \in CallKinds : EmitCall(kind)
  \/ \E s \in Sessions : ReplaySend(s)
  \/ \E u \in LoginUsers, systems \in GrantedSystems, talkgroups \in GrantedTalkgroups :
       CentralWebhookUserGrantHandler(u, apiKey, systems, talkgroups)

AccessSpec == AccessInit /\ [][AccessNext]_vars

\* The controller serves its Unregister channel: a session the revoke handler
\* handed to it is unregistered.
ForcedUnregister == \E s \in Sessions : revoked[s] # "no" /\ OnDisconnect(s)

ManagedLiveSpec == ManagedSpec /\ WF_vars(ForcedUnregister)

\* ================================================================== claims
\* The ids the replay goroutine / the dispatcher has enqueued to session s.
ReplaySeq(s) ==
  LET r == SelectSeq(enq[s], LAMBDA e : e.via = "replay")
  IN [i \in 1..Len(r) |-> r[i].id]
ReplaySet(s) == {enq[s][i].id : i \in {j \in 1..Len(enq[s]) : enq[s][j].via = "replay"}}
IsPrefix(p, q) == Len(p) <= Len(q) /\ \A i \in 1..Len(p) : p[i] = q[i]
LastN(seq, n) == SubSeq(seq, Len(seq) - n + 1, Len(seq))

\* A live session that consumed a record within the grace window, during whose
\* lifetime at most maxBufferSize wanted calls were persisted, and whose replay
\* has ended.
ReconnectedInGrace(s) ==
  /\ phase[s] = "live"
  /\ restored[s].found
  /\ restored[s].age <= HoldDuration
  /\ Cardinality(restored[s].want) <= rmMaxBufferSize
  /\ replay[s].pc # "run"

C2_PerSessionOrdering ==
  \A s \in Sessions :
    \A i, j \in 1..Len(enq[s]) :
      enq[s][i].id < enq[s][j].id => i < j

C4_GraceExpiry ==
  \A s \in Sessions :
    (restored[s].found /\ restored[s].age > HoldDuration)
      => /\ restored[s].handed = <<>>
         /\ replay[s].pc = "none"
         /\ ReplaySet(s) = {}

C4_Witness ==
  \E s \in Sessions :
    /\ restored[s].found
    /\ restored[s].age > HoldDuration
    /\ restored[s].buffer # <<>>
    /\ phase[s] = "live"

\* C5 (the record is consumed once): the step that registers a session of an
\* authenticated user leaves no record for that user, and no buffered call is
\* handed to two sessions of the same user.
C5_Registered ==
  \A s \in Sessions :
    (phase[s] = "idle" /\ phase'[s] = "live" /\ clients'[s].User # NoUser)
      => getUserKey(clients'[s].User) \notin DOMAIN States'

C5_HandedOnce ==
  \A s1, s2 \in Sessions :
    (s1 # s2 /\ clients[s1].User # NoUser /\ clients[s1].User = clients[s2].User)
      => Range(restored[s1].handed) \cap Range(restored[s2].handed) = {}

C5_ConsumedOnce == [][C5_Registered /\ C5_HandedOnce']_vars

C5_Witness ==
  \E s1, s2 \in Sessions :
    /\ s1 < s2
    /\ phase[s1] = "live" /\ phase[s2] = "live"
    /\ clients[s1].User # NoUser /\ clients[s1].User = clients[s2].User
    /\ restored[s1].handed # <<>>
    /\ getUserKey(clients[s1].User) \notin DOMAIN States

\* C6 (no append after expiry): a call handed to the manager when a record is
\* older than the grace window is never in that record's buffer, whether or
\* not the cleanup has run.
C6_NoLateAppend ==
  \A k \in DOMAIN States :
    saved[k].late \cap Range(States[k].MissedCalls) = {}

C6_Witness ==
  \E k \in DOMAIN States : saved[k].late # {}

\* C7 (every record is eventually deleted): a record stored at time t is
\* eventually gone, with no help from its user or from ingest; t ranges over
\* the times whose expiry the clock of the model reaches.
C7_EventuallyDeleted ==
  \A t \in 0..(MaxTime - HoldDuration - 1) :
    \A u \in LoginUsers :
      LET there == /\ ~fault
                   /\ getUserKey(u) \in DOMAIN States
                   /\ States[getUserKey(u)].LastSeen = t
      IN there ~> ~there

C7_Witness == swept /\ DOMAIN States = {} /\ ~fault

\* C8 (what OnDisconnect stores): the step that unregisters a session stores a
\* record exactly when the manager is enabled and the session authenticated;
\* that record has an empty buffer, lastSeen = now and the session's matrix;
\* and a record's matrix stays what it was when stored, whatever the session
\* does to its own matrix afterwards.
C8_Stored ==
  \A s \in Sessions :
    (phase[s] = "live" /\ phase'[s] = "closing")
      => IF rmEnabled /\ clients[s].User # NoUser
         THEN LET k == getUserKey(clients[s].User) IN
              /\ k \in DOMAIN States'
              /\ States'[k].MissedCalls = <<>>
              /\ States'[k].LastSeen = now
              /\ heap'[States'[k].Livefeed] = heap[clients[s].Livefeed]
         ELSE States' = States

C8_Frozen ==
  \A k \in DOMAIN States :
    /\ rmEnabled
    /\ States[k].User # NoUser
    /\ heap[States[k].Livefeed] = saved[k].snap

C8_FrozenSnapshot == [][C8_Stored /\ C8_Frozen']_vars

C8_Witness ==
  \E s \in Sessions :
    /\ phase[s] = "closing"
    /\ clients[s].User # NoUser
    /\ getUserKey(clients[s].User) \in DOMAIN States
    /\ States[getUserKey(clients[s].User)].Livefeed = <<"saved", s>>
    /\ heap[clients[s].Livefeed] # saved[getUserKey(clients[s].User)].snap

C10_ReplayPrefix ==
  \A s \in Sessions :
    /\ IsPrefix(ReplaySeq(s), restored[s].buffer)
    /\ (restored[s].refusedAt >= 0 => Len(ReplaySeq(s)) = restored[s].refusedAt)

C10_Witness ==
  \E s \in Sessions :
    /\ phase[s] = "live"
    /\ restored[s].refusedAt = 1
    /\ Len(restored[s].buffer) = 2
    /\ clients[s].Send = <<>>

C12_Gated ==
  \A s \in Sessions :
    (Len(enq'[s]) = Len(enq[s]) + 1 /\ enq'[s][Len(enq'[s])].via = "live")
      => LET call == calls'[enq'[s][Len(enq'[s])].id] IN
         /\ clients[s].User # NoUser => userHasAccess(clients[s].User, call)
         /\ call.systemRef \in DOMAIN heap[clients[s].Livefeed]
         /\ call.talkgroupRef \in DOMAIN heap[clients[s].Livefeed][call.systemRef]
         /\ heap[clients[s].Livefeed][call.systemRef][call.talkgroupRef] = TRUE

C13_Step ==
  Len(calls') = Len(calls) + 1 =>
    \A s \in Sessions :
      (phase[s] = "live" /\ LiveGate(s, calls'[Len(calls')]))
        => IF Len(clients[s].Send) < OutboxCap
           THEN clients'[s].Send = Append(clients[s].Send, CallMessage(Len(calls')))
           ELSE clients'[s].Send = clients[s].Send

C14_Closed ==
  \A s \in Sessions : (revoked[s] # "no") ~> (phase[s] # "live")

C14_Silent ==
  [][\A s \in Sessions :
       (revoked[s] # "no" /\ revokedAt[clients[s].User] >= 0)
         => Len(enq'[s]) <= Len(enq[s])]_vars

C14_Revocation == C14_Closed /\ C14_Silent

\* The step is the revoke handler serving a request for u.
RevokeStep(u) == hooks' = hooks + 1 /\ revokedAt'[u] >= 0

ErrorCount(q) == Cardinality({i \in 1..Len(q) : q[i].Command = "error"})

\* C15 (the revocation reason is delivered): the revocation of a user u whose
\* access was in force enqueues exactly one error message, carrying the fixed
\* reason, to every registered session of u, whatever its outbox holds at that
\* moment.
C15_Step ==
  \A u \in Users :
    (RevokeStep(u) /\ revokedAt[u] = -1) =>
      \A s \in Sessions :
        (phase[s] = "live" /\ clients[s].User = u)
          => /\ ErrorCount(clients'[s].Send) = ErrorCount(clients[s].Send) + 1
             /\ clients'[s].Send[Len(clients'[s].Send)] = ErrorMessage

C15_ErrorDelivered == [][C15_Step]_vars

\* The step is the grant handler serving a request for u.
GrantStep(u) == hooks' = hooks + 1 /\ revokedAt'[u] = -1

\* C16 (revocation is a mutation): no step removes a user from the store; the
\* revocation of u sets u's PIN expiry to the revocation instant, which is not
\* zero and not later than now; while the revocation is in force u is in the
\* store with that expired PIN; and only a grant for u sets a non-zero expiry
\* back to zero.
C16_Step ==
  /\ DOMAIN userStore' = DOMAIN userStore
  /\ \A u \in Users :
       /\ RevokeStep(u) =>
            /\ u \in DOMAIN userStore'
            /\ userStore'[u].PinExpiresAt = now + Epoch
            /\ userStore'[u].PinExpiresAt # 0
       /\ revokedAt'[u] >= 0 =>
            /\ u \in DOMAIN userStore'
            /\ userStore'[u].PinExpiresAt = revokedAt'[u] + Epoch
            /\ userStore'[u].PinExpiresAt <= now' + Epoch
       /\ (u \in DOMAIN userStore /\ u \in DOMAIN userStore'
             /\ userStore[u].PinExpiresAt # 0 /\ userStore'[u].PinExpiresAt = 0)
            => GrantStep(u)
       /\ GrantStep(u) => (u \in DOMAIN userStore' /\ userStore'[u].PinExpiresAt = 0)

C16_RevokeMutates == [][C16_Step]_vars

C16_Witness ==
  \E u \in Users :
    /\ revokedAt[u] >= 0
    /\ now > revokedAt[u]
    /\ u \in DOMAIN userStore
    /\ userStore[u].PinExpiresAt # 0
    /\ hooks = 1

\* C17 (revocation destroys the record): while the revocation of u is in force
\* the manager holds no disconnected-state record for u, so no call is
\* buffered for u.
C17_RecordDestroyed ==
  \A u \in Users :
    revokedAt[u] >= 0 => getUserKey(u) \notin DOMAIN States

\* C18 (search bound): a search returns at most min(limit, 500) items, and at
\* most 200 items when no limit is given.
C18_SearchBound ==
  logResults.Searched =>
    IF logResults.Limit.set
    THEN /\ Len(logResults.Logs) <= logResults.Limit.v
         /\ Len(logResults.Logs) <= SearchMaxLimit
    ELSE Len(logResults.Logs) <= SearchDefaultLimit

C18_Witness ==
  /\ logResults.Searched
  /\ logResults.Limit.set
  /\ logResults.Limit.v > SearchMaxLimit
  /\ logRows.count > logResults.Limit.v
  /\ Len(logResults.Logs) = SearchMaxLimit

\* The limit and the offset a search's results were computed with.
ResultLimit(r) == SearchLimit(r.Limit)
ResultOffset(r) == SearchOffset(r.Offset)

\* C19 (HasMore law): a search over a store that holds at least
\* offset+limit+1 matching rows reports hasMore; a search over a store that
\* holds exactly offset+limit matching rows does not.
C19_Step ==
  logResults' # logResults =>
    LET r == logResults'
        page == ResultOffset(r) + ResultLimit(r)
    IN /\ logRows.count >= page + 1 => r.HasMore
       /\ logRows.count = page => ~r.HasMore

C19_HasMoreLaw == [][C19_Step]_vars

C19_Witness ==
  /\ logResults.Searched
  /\ logRows.added = 0
  /\ ResultLimit(logResults) > 0
  /\ ResultOffset(logResults) > 0
  /\ logRows.count = ResultOffset(logResults) + ResultLimit(logResults) + 1
  /\ logResults.HasMore

\* C20 (hasMore and the page): a search that returns a page reports hasMore
\* exactly when the store holds a matching row beyond the last row of that
\* page, also when some of the fetched rows were skipped.  A skipped row
\* beyond the page may count or not: hasMore needs some row beyond the page,
\* and a row beyond the page that is not skipped needs hasMore.
C20_Step ==
  logResults' # logResults /\ Len(logResults'.Logs) > 0 =>
    LET r == logResults'
        last == r.Logs[Len(r.Logs)]
    IN /\ r.HasMore => logRows.count > last
       /\ (\E i \in (last + 1)..logRows.count : i \notin logRows.bad) => r.HasMore

C20_HasMoreBeyondPage == [][C20_Step]_vars

\* C21 (count): the reported count is offset + len(logs) when hasMore is false
\* and offset + len(logs) + 1 when hasMore is true; 450 rows searched with limit
\* 200 give the counts 201, 401 and 450 at the offsets 0, 200 and 400.
C21_Law ==
  logResults.Searched =>
    logResults.Count = ResultOffset(logResults) + Len(logResults.Logs)
                         + (IF logResults.HasMore THEN 1 ELSE 0)

C21_Example ==
  /\ logResults.Searched
  /\ logRows = [NoRows EXCEPT !.count = 450]
  /\ ResultLimit(logResults) = 200
  => /\ ResultOffset(logResults) = 0 => logResults.Count = 201
     /\ ResultOffset(logResults) = 200 => logResults.Count = 401
     /\ ResultOffset(logResults) = 400 => logResults.Count = 450

C21_Count == C21_Law /\ C21_Example

C21_Witness ==
  /\ logResults.Searched
  /\ logRows = [NoRows EXCEPT !.count = 450]
  /\ ResultLimit(logResults) = 200
  /\ ResultOffset(logResults) = 400
  /\ Len(logResults.Logs) = 50
  /\ ~logResults.HasMore
  /\ logResults.Count = 450

\* The items of a page.
Items(r) == {r.Logs[i] : i \in 1..Len(r.Logs)}

\* C22 (timestamp hygiene): no item a search returns has a timestamp whose
\* year is outside 1..9999, in UTC or as the server renders it; the rows with
\* such timestamps are skipped and the search does not fail.
C22_TimestampHygiene ==
  logResults.Searched =>
    /\ ~logResults.Err
    /\ \A id \in Items(logResults) :
         /\ TimestampOf(id).Valid
         /\ TimestampOf(id).Int64 >= YearOneTimestamp
         /\ TimestampOf(id).Int64 < MaxSafeTimestamp
         /\ TimestampOf(id).Int64 + logZone >= YearOneTimestamp
         /\ TimestampOf(id).Int64 + logZone < MaxSafeTimestamp

C22_Witness ==
  /\ logResults.Searched
  /\ ~logResults.Err
  /\ logRows.added = 0
  /\ logRows.odd = OddRows
  /\ logRows.bad = {}
  /\ logZone > 0
  /\ SearchOrder(logResults.Sort) = "ASC"
  /\ ~logResults.Date.set
  /\ ResultOffset(logResults) = 0
  /\ logRows.old + logRows.count > 0
  /\ Len(logResults.Logs) = logRows.old + logRows.count
  /\ ~logResults.HasMore

\* C23 (look-back window): a descending search without a date returns only
\* rows of the last 24 hours; an ascending search, and a search with a date,
\* is restricted by no window: read from offset 0 to its end, it returns
\* every valid row (from the date on, when one is given).
C23_Clean(id) ==
  /\ id \notin logRows.bad
  /\ TimestampOf(id).Valid
  /\ TimestampOf(id).Int64 > 0
  /\ TimestampOf(id).Int64 < MaxSafeTimestamp
  /\ TimestampOf(id).Int64 + logZone < MaxSafeTimestamp

C23_Step ==
  logResults' # logResults =>
    LET r == logResults'
        desc == r.Sort.set /\ r.Sort.v < 0
    IN /\ desc /\ ~r.Date.set =>
            \A id \in Items(r) : TimestampOf(id).Int64 >= SearchClock - Lookback
       /\ (~desc \/ r.Date.set) /\ ResultOffset(r) = 0 /\ ~r.HasMore =>
            \A id \in ((1 - logRows.old)..logRows.count) \cup logRows.odd :
               /\ C23_Clean(id)
               /\ r.Date.set => TimestampOf(id).Int64 >= r.Date.v
               => id \in Items(r)

C23_LookbackWindow == [][C23_Step]_vars

C23_Witness ==
  /\ logResults.Searched
  /\ logRows.added = 0
  /\ logRows.old > 0
  /\ logRows.count > 0
  /\ logRows.bad = {}
  /\ logResults.Sort = Option(-1)
  /\ ~logResults.Date.set
  /\ ResultOffset(logResults) = 0
  /\ ~logResults.HasMore
  /\ Len(logResults.Logs) = logRows.count

\* C24 (failed searches): a search whose query fails or times out, before the
\* first row or while the rows are read, returns an error and no page.
C24_NoPartialPage ==
  logFailure.at \in {"query", "rows"} =>
    /\ logResults.Err
    /\ logResults.Logs = <<>>
    /\ ~logResults.HasMore

\* C25 (conversion failure): when the conversion of an ingested call fails, or
\* the media tool is unavailable, the call's audio, MIME type and filename are
\* left as they were, and the call is persisted.
C25_Step ==
  lastIngest' # lastIngest /\ lastIngest'.failed =>
    /\ Len(callStore') = Len(callStore) + 1
    /\ callStore'[Len(callStore')] = lastIngest'.call

C27_MigrationContinues ==
  /\ migration.pc = "idle"
  /\ migration.result = "complete"
  /\ \A id \in migration.failedIds : migration.before[id].Audio.as = "corrupt"
  => /\ \A id \in EligibleIds(migration.before) \ migration.failedIds :
          callStore[id].AudioMime = "audio/opus"
     /\ \A id \in migration.failedIds : callStore[id] = migration.before[id]

\* C28 (resume): a call that is audio/opus is never selected into a batch and
\* never written again, in a first, a later or a resumed run; a run over a table
\* with no call left to convert ends at once.
C28_Step ==
  /\ \A id \in 1..Len(callStore) :
       callStore[id].AudioMime = "audio/opus" => callStore'[id] = callStore[id]
  /\ migration'.batch # migration.batch =>
       \A i \in 1..Len(migration'.batch) :
          callStore[migration'.batch[i]].AudioMime # "audio/opus"
  /\ migration'.runs > migration.runs /\ ffmpeg.available
       /\ (\A id \in 1..Len(callStore) : callStore[id].AudioMime \in {"audio/opus", "audio/wav"})
       => migration'.pc = "idle" /\ migration'.result = "nothing"

C28_ResumeSafe == [][C28_Step]_vars

C28_Witness ==
  /\ migration.runs = 2
  /\ migration.pc = "rows"
  /\ migration.pos > 1
  /\ \E id \in 1..Len(callStore) :
       /\ migration.before[id].AudioMime = "audio/opus"
       /\ migration.before[id].AudioFilename.stem = "converted"
  /\ \E id \in 1..Len(callStore) :
       /\ migration.before[id].AudioMime = "audio/mp4"
       /\ callStore[id].AudioMime = "audio/opus"

\* C26 (bulk mutations): an admin tag write is all-or-nothing: when a step of
\* it fails, the "tags" table is as it was before the write.  The migration
\* to Opus is not: a call it converted stays converted when a later step of
\* the run fails.
C26_Step ==
  tagWrite' # tagWrite /\ tagWrite'.err => tagTable' = tagTable

C26_TagWriteAtomic == [][C26_Step]_vars

C26_Witness ==
  /\ tagWrite.done
  /\ tagWrite.err
  /\ tagTable = tagWrite.before
  /\ WriteSteps(tagTable, tagList, 0).work # tagTable
  /\ \E id \in 1..Len(migration.before) :
       /\ migration.before[id].AudioMime = "audio/mp4"
       /\ callStore[id].AudioMime = "audio/opus"
  /\ migration.failed > 0

\* C26 as stated: tag writes and the migration are all-or-nothing: when a
\* step of the operation has failed, the store is as it was before it.
C26_Original ==
  /\ tagWrite.err => tagTable = tagWrite.before
  /\ migration.failed > 0 => callStore = migration.before

\* C29 (webhook authentication): a management webhook changes the state or
\* answers with success only if central management is enabled and the
\* request's X-API-Key is the configured management API key.
C29_Step ==
  /\ hooks' = hooks + 1
  /\ (lastResponse'.status = StatusOK \/ userStore' # userStore \/ clients' # clients)
  => centralEnabled /\ lastResponse'.key = apiKey

C29_WebhookAuth == [][C29_Step]_vars

\* C30 (no blocking under a lock): the process that holds the lock of the
\* session registry or the lock of the reconnection manager is not at a
\* blocking operation (a channel send or receive).
C30_NoBlockingUnderLock ==
  \A m \in DOMAIN mutex : mutex[m] # "" => ~AtBlocking(mutex[m])

\* C31 (buffer bound): for every configured maxBufferSize >= 0, buffering a
\* call completes without a fault, and every record holds at most
\* MaxBufferSize buffered calls.
C31_BufferBound ==
  /\ ~fault
  /\ \A k \in DOMAIN States : Len(States[k].MissedCalls) <= States[k].MaxBufferSize

\* C32 (valid timestamp range): a row is kept out of the results on the
\* grounds of its timestamp only if the timestamp lies outside the valid
\* range, from year 1 to year 9999: an ascending search without a date, read
\* from offset 0 to its end, returns every row with a message whose timestamp
\* lies inside the range, the instants up to 1970 included.
C32_InRange(id) ==
  /\ id \notin logRows.bad
  /\ TimestampOf(id).Valid
  /\ TimestampOf(id).Int64 >= YearOneTimestamp
  /\ TimestampOf(id).Int64 < MaxSafeTimestamp

C32_Step ==
  logResults' # logResults =>
    LET r == logResults'
        desc == r.Sort.set /\ r.Sort.v < 0
    IN ~r.Err /\ ~desc /\ ~r.Date.set /\ ResultOffset(r) = 0 /\ ~r.HasMore =>
         \A id \in ((1 - logRows.old)..logRows.count) \cup logRows.odd :
            C32_InRange(id) => id \in Items(r)

C32_ValidRange == [][C32_Step]_vars

\* C33 (one leave per removal code): a removal code authorizes at most one
\* leave: of the requests that read the same code as set, at most one passes
\* the handler's tests; every other one is rejected.
C33_Authorized(r) == leave[r].pc \in {"clear", "unlink", "panic"} \/ leave[r].status = StatusOK

C33_OneLeavePerCode ==
  \A r1, r2 \in LeaveRequests :
     r1 # r2 /\ C33_Authorized(r1) /\ C33_Authorized(r2) => leave[r1].issue # leave[r2].issue

\* C34 (buffer kept across disconnects): when a session disconnects, the calls
\* already buffered in a record within its grace window are kept, also when
\* the session is another session of the record's user.
C34_Step ==
  \A s \in Sessions :
     phase[s] = "live" /\ phase'[s] = "closing" =>
       \A k \in DOMAIN States :
          ~GraceExpired(States[k], now) =>
            /\ k \in DOMAIN States'
            /\ States'[k].MissedCalls = States[k].MissedCalls

C34_BufferKept == [][C34_Step]_vars

\* C35 (replay authorization): with user authentication required, every call
\* the replay enqueues to a reconnected session is one its user has access to
\* when it is enqueued, also when the user's access was narrowed after the
\* call was buffered.
C35_Step ==
  \A s \in Sessions :
     /\ Len(enq'[s]) = Len(enq[s]) + 1
     /\ enq'[s][Len(enq'[s])].via = "replay"
     => userHasAccess(clients[s].User, calls[enq'[s][Len(enq'[s])].id])

C35_ReplayAuthorized == [][C35_Step]_vars

\* C36 (the revoke completes): a revoke handler that has passed its checks
\* takes the registry's lock, hands every session of the user to the
\* Unregister channel and releases the lock, for any number of sessions of
\* the user: it never waits forever.
C36_RevokeCompletes == (revoke.pc = "lock") ~> (revoke.pc = "idle")

\* C37 (paging): paging through an unchanging store with the offset advanced
\* by the limit returns no row twice: the page of a search and the page that
\* follows it, read from the same store with the same options, share no row,
\* also when rows fetched for the first page are skipped as invalid.
C37_NextPage(r) ==
  Search(logRows, logZone, r.Limit, Option(ResultOffset(r) + ResultLimit(r)), r.Sort, r.Date,
         NoFailure)

C37_PagesDisjoint ==
  /\ logResults.Searched
  /\ ~logResults.Err
  /\ logRows.added = 0
  => Items(logResults) \cap Items(C37_NextPage(logResults)) = {}

\* C38: MigrateToOpus terminates: a run that has entered its batch loop
\* leaves it, also when the batch query fails on every attempt and when calls
\* fail to convert on every attempt.
C38_Terminates == (migration.pc = "loop") ~> (migration.pc = "idle")

\* C40: after a successful Tags.Write the tags of the store are the tags of
\* the in-memory list: every stored tag is a tag of the list, by its id or, for
\* a tag the list newly created (id 0), by its label; a stored tag absent from
\* the list has been deleted.
C40_StoreEqualsList ==
  /\ tagWrite.done
  /\ ~tagWrite.err
  => \A id \in DOMAIN tagTable :
       \E i \in 1..Len(tagList) :
         \/ tagList[i].Id = id
         \/ tagList[i].Id = 0 /\ tagList[i].Label = tagTable[id].Label

\* C39: the two device-token indexes are consistent: every id of the by-id
\* map appears exactly once in the list of its token's user, there with the
\* same token object, and every entry of a user's list is a token of the by-id
\* map.
C39_IndexesConsistent ==
  /\ \A id \in DOMAIN dt.tokens :
       LET userTokens == dt.userTokens[dt.objects[dt.tokens[id]].UserId]
           found == {i \in 1..Len(userTokens) : dt.objects[userTokens[i]].Id = id}
       IN /\ Cardinality(found) = 1
          /\ \A i \in found : userTokens[i] = dt.tokens[id]
  /\ \A u \in DeviceUsers :
       \A i \in 1..Len(dt.userTokens[u]) :
         dt.objects[dt.userTokens[u][i]].Id \in DOMAIN dt.tokens

====
